---- MODULE Spec2Model ----
(***************************************************************************)
(* Fuel-cycle and supply/demand balance engine of uranium_model.           *)
(*                                                                         *)
(* The core stages are functions over tables.  A table is modelled by its  *)
(* rows (records whose fields are the columns the code reads); a table     *)
(* whose row order the code depends on is a sequence of rows, every other  *)
(* table a set of rows.  Year-level panels are keyed by year (one row per  *)
(* year), as the stages that produce them guarantee (groupby("year")).     *)
(*                                                                         *)
(* Each stage is an operator that returns what the Python function         *)
(* returns, or the exception it raises; the actions call a stage on the    *)
(* arguments held in the state and store the outcome.                      *)
(*                                                                         *)
(* Units: years are small integers (offsets from a base year); tonnages    *)
(* are integers (tU); assays are integers in units of 1e-5 (711 = 0.00711).*)
(***************************************************************************)
EXTENDS Integers, Sequences, FiniteSets, TLC

VARIABLES
    evolve_args,    \* arguments of the pending / last call of evolve_inventories
    evolve_ret,     \* its outcome: Pending, or [status, raised_at, rows]
    demand_args,    \* arguments of the pending / last call of compute_reactor_demand
    demand_ret,     \* its outcome: Pending, or [status, raised_at, reactors, rows]
    fuel_args,      \* arguments of the pending / last call of a fuel_cycle.py function
    fuel_ret,       \* its outcome: Pending, or [status, raised_at, ...]
    supply_args,    \* arguments of the pending / last call of build_primary_supply
    supply_ret,     \* its outcome: Pending, or [status, mine_year, primary_supply]
    balance_args,   \* arguments of the pending / last call of a capacity balance
    balance_ret,    \* its outcome: Pending, or [status, raised_at, rows]
    panel_args,     \* arguments of the pending / last call of build_sd_panel
    panel_ret,      \* its outcome: Pending, or [status, raised_at, rows]
    chain_args,     \* inputs of a run of the chain demand -> feed -> panel
    secondary_args, \* arguments of the pending / last call of build_secondary_supply
    secondary_ret   \* its outcome: Pending, or [status, raised_at, rows]

vars == <<evolve_args, evolve_ret, demand_args, demand_ret, fuel_args, fuel_ret,
          supply_args, supply_ret, balance_args, balance_ret, panel_args, panel_ret,
          chain_args, secondary_args, secondary_ret>>

\* The arguments of a stage no call of which is under way.
NoCall == [called |-> FALSE]

\* Outcome of a call that has not been made yet.
Pending == [status |-> "pending"]

\* A missing optional argument (Python None).
None == [is_none |-> TRUE]

\* An optional value (a cell that may hold NaN / NaT) is the set of its values:
\* NaN is the empty set, the value v is {v}.
NaN == {}
Some(v) == {v}
ValueOf(cell) == CHOOSE v \in cell : TRUE
\* Series.fillna(other), cell by cell.
fillna(cell, other) == IF cell = NaN THEN other ELSE cell

----------------------------------------------------------------------------
(* Generic helpers over integers and tables.                               *)

MaxOf(S) == CHOOSE m \in S : \A x \in S : x <= m

RECURSIVE SumOver(_, _)
\* Sum of F[x] over the finite set S.
SumOver(S, F) ==
    IF S = {} THEN 0
    ELSE LET x == CHOOSE y \in S : TRUE
         IN  F[x] + SumOver(S \ {x}, F)

\* All sequences without repetition over the set S, of length at most n.
DistinctSeqs(S, n) ==
    {s \in UNION {[1..k -> S] : k \in 0..n} :
        \A i, j \in DOMAIN s : i # j => s[i] # s[j]}

----------------------------------------------------------------------------
(* DataFrame objects.  A call holds its argument tables by reference: an   *)
(* assignment df[col] = ... changes the object df names, and the caller    *)
(* sees it when that object is one of the arguments.  A frame is a record  *)
(* [of, table]: of is the name of the argument whose object it is, "" for  *)
(* an object the call created; table is its content.                       *)

\* The object passed as the argument name.
argument(name, table) == [of |-> name, table |-> table]

\* The object a selection, merge, concat, groupby or rename returns: a new
\* one.
new_frame(table) == [of |-> "", table |-> table]

\* Variant of DataFrame_copy that hands back the object it was given.
DataFrame_copy_same_object(frame) == frame

\* DataFrame.copy(): a new object with the same content.
DataFrame_copy(frame) == [of |-> "", table |-> frame.table]

\* df[col] = ...: the same object, with the content the assignment leaves.
setitem(frame, table) == [of |-> frame.of, table |-> table]

\* The arguments a of a call as the caller holds them after it, written
\* being the frames the call assigned into.
inputs_after(a, written) ==
    [name \in DOMAIN a |->
        IF \E f \in written : f.of = name
        THEN (CHOOSE f \in written : f.of = name).table
        ELSE a[name]]

----------------------------------------------------------------------------
(* Inventory evolution: core/secondary_supply.py, evolve_inventories.      *)

\* Bounds of the inventory model.
MaxSeedYear == 1     \* initial-inventory rows carry years 0..MaxSeedYear
MaxYear == 3         \* supply / demand / scenario rows carry years 1..MaxYear

SeedYears == 0..MaxSeedYear
FlowYears == 1..MaxYear

\* Tonnages carried by the rows of each input table, by year (all distinct,
\* so that a row taken from the wrong table or the wrong year shows).
InventoryTu(y) == 100 - 30 * y
PrimaryTu(y) == 10 - 2 * y
SecondaryTu(y) == 5 - y
FeedTu(y) == 12 + 3 * y
InventoryChangeTu(y) == 7 * y

\* series.get(year, default) on a table indexed by year: the value of column
\* col in the row of that year, the default when the year has no row.
SeriesGet(table, col, year, default) ==
    IF \E r \in table : r.year = year
    THEN (CHOOSE r \in table : r.year = year)[col]
    ELSE default

\* DataFrame.sort_values("year") on a sequence of rows with distinct years
\* (insertion of each row into the sorted prefix).
RECURSIVE sort_values(_)
sort_values(rows) ==
    IF Len(rows) <= 1 THEN rows
    ELSE LET head == sort_values(SubSeq(rows, 1, Len(rows) - 1))
             r == rows[Len(rows)]
             before == SelectSeq(head, LAMBDA x : x.year <= r.year)
             after == SelectSeq(head, LAMBDA x : x.year > r.year)
         IN  before \o <<r>> \o after

\* .iloc[-1]: the last row.
iloc_last(rows) == rows[Len(rows)]

\* policy_flow of one year (lines 68-70): the scenario's inventory_change_tu
\* when the scenario table is given, non-empty, has a row for the year and has
\* the column; 0 otherwise.
policy_flow(inventory_scenarios, year) ==
    IF inventory_scenarios = None THEN 0
    ELSE IF inventory_scenarios.rows # {}
            /\ (\E r \in inventory_scenarios.rows : r.year = year)
            /\ inventory_scenarios.has_inventory_change_tu
         THEN SeriesGet(inventory_scenarios.rows, "inventory_change_tu", year, 0)
         ELSE 0

\* One pass of the loop body (lines 64-72): the stock after the year.
next_stock(stock, year, a) ==
    LET primary == SeriesGet(a.primary_supply_year, "primary_supply_tu", year, 0)
        secondary == SeriesGet(a.secondary_supply_year, "secondary_supply_tu", year, 0)
        demand == SeriesGet(a.feed_demand_year, "feed_tu", year, 0)
    IN  stock + primary + secondary - demand + policy_flow(a.inventory_scenarios, year)

\* The loop of lines 62-73: the rows appended for year..end_year.
RECURSIVE inventory_series(_, _, _, _)
inventory_series(year, end_year, stock, a) ==
    IF year > end_year THEN <<>>
    ELSE LET s == next_stock(stock, year, a)
         IN  <<[year |-> year, inventory_tu |-> s]>>
             \o inventory_series(year + 1, end_year, s, a)

\* Variant of seed_stock that skips the sort (takes the last row as given).
seed_stock_unsorted(initial_inventories) ==
    iloc_last(initial_inventories).inventory_tu

\* The seed of the recurrence (line 51).
seed_stock(initial_inventories) ==
    iloc_last(sort_values(initial_inventories)).inventory_tu

\* The guard of line 48: DataFrame.empty.
initial_is_empty(initial_inventories) == Len(initial_inventories) = 0

\* Variant of evolve_inventories that answers an empty seed series with an
\* empty panel instead of raising.
evolve_inventories_empty_panel(a) ==
    IF initial_is_empty(a.initial_inventories) \/ a.feed_demand_year = {}
    THEN [status |-> "ok", raised_at |-> 0, rows |-> <<>>]
    ELSE [status |-> "ok", raised_at |-> 0,
          rows |-> inventory_series(
                       MaxOf({a.initial_inventories[i].year :
                                 i \in DOMAIN a.initial_inventories}) + 1,
                       MaxOf({r.year : r \in a.feed_demand_year}),
                       seed_stock(a.initial_inventories), a)]

\* evolve_inventories(a): the outcome of the call with arguments a.
evolve_inventories(a) ==
    IF initial_is_empty(a.initial_inventories)
    THEN [status |-> "ValueError", raised_at |-> 49, rows |-> <<>>]
    ELSE IF a.feed_demand_year = {}
         \* int(NaN): the maximum of an empty year column
         THEN [status |-> "ValueError", raised_at |-> 53, rows |-> <<>>]
         ELSE LET stock == seed_stock(a.initial_inventories)
                  start_year ==
                      MaxOf({a.initial_inventories[i].year :
                                i \in DOMAIN a.initial_inventories}) + 1
                  end_year == MaxOf({r.year : r \in a.feed_demand_year})
              IN  [status |-> "ok", raised_at |-> 0,
                   rows |-> inventory_series(start_year, end_year, stock, a)]

\* Input tables of evolve_inventories.
InitialInventoryTables ==
    {[i \in DOMAIN ys |-> [year |-> ys[i], inventory_tu |-> InventoryTu(ys[i])]] :
        ys \in DistinctSeqs(SeedYears, MaxSeedYear + 1)}

PrimarySupplyTables ==
    {{[year |-> y, primary_supply_tu |-> PrimaryTu(y)] : y \in Y} : Y \in SUBSET FlowYears}

SecondarySupplyTables ==
    {{[year |-> y, secondary_supply_tu |-> SecondaryTu(y)] : y \in Y} : Y \in SUBSET FlowYears}

FeedDemandTables ==
    {{[year |-> y, feed_tu |-> FeedTu(y)] : y \in Y} : Y \in SUBSET FlowYears}

InventoryScenarioTables ==
    {None} \cup
    {[rows |-> {[year |-> y, inventory_change_tu |-> InventoryChangeTu(y)] : y \in Y},
      has_inventory_change_tu |-> c] : Y \in SUBSET FlowYears, c \in BOOLEAN}

InitInventory ==
    /\ evolve_args \in [initial_inventories : InitialInventoryTables,
                        primary_supply_year : PrimarySupplyTables,
                        secondary_supply_year : SecondarySupplyTables,
                        feed_demand_year : FeedDemandTables,
                        inventory_scenarios : InventoryScenarioTables]
    /\ evolve_ret = Pending
    /\ demand_args = NoCall
    /\ demand_ret = Pending
    /\ fuel_args = NoCall
    /\ fuel_ret = Pending
    /\ supply_args = NoCall
    /\ supply_ret = Pending
    /\ balance_args = NoCall
    /\ balance_ret = Pending
    /\ panel_args = NoCall
    /\ panel_ret = Pending
    /\ chain_args = NoCall
    /\ secondary_args = NoCall
    /\ secondary_ret = Pending

\* The arguments after a call of evolve_inventories: lines 48-75 assign into
\* no frame (scenario is a copy, line 55; sort_values and set_index return
\* new objects).
evolve_inventories_inputs_after(a) == inputs_after(a, {})

\* The call of evolve_inventories on the arguments held.
EvolveInventories ==
    /\ evolve_args # NoCall
    /\ evolve_ret = Pending
    /\ evolve_ret' = evolve_inventories(evolve_args)
    /\ evolve_args' = evolve_inventories_inputs_after(evolve_args)
    /\ UNCHANGED <<demand_args, demand_ret, fuel_args, fuel_ret,
                 supply_args, supply_ret, balance_args, balance_ret,
                 panel_args, panel_ret, chain_args,
                 secondary_args, secondary_ret>>

NextInventory == EvolveInventories

SpecInventory == InitInventory /\ [][NextInventory]_vars

----------------------------------------------------------------------------
(* Properties of evolve_inventories.                                       *)

\* The value a table contributes to a year: the sum of column col over the
\* rows of that year (0 when the year has no row).
YearTotal(table, col, year) ==
    LET rows == {r \in table : r.year = year}
    IN  SumOver(rows, [r \in rows |-> r[col]])

\* policyFlow(t) as the specification states it.
PolicyFlowOf(inventory_scenarios, year) ==
    IF inventory_scenarios = None THEN 0
    ELSE IF ~inventory_scenarios.has_inventory_change_tu THEN 0
         ELSE YearTotal(inventory_scenarios.rows, "inventory_change_tu", year)

\* C1: with a non-empty seed series and a non-empty feed-demand panel,
\* evolve_inventories returns exactly one row for every year from
\* lastKnownYear+1 through max(feed_demand.year), ascending; the seed is the
\* inventory of the row with the largest year whatever the row order; each
\* row satisfies stock(t) = stock(t-1) + primary(t) + secondary(t) - feed(t)
\* + policyFlow(t), a term without a row for the year counting as zero.
C1_InventoryRecurrence ==
    LET a == evolve_args
        init == a.initial_inventories
    IN  (evolve_ret # Pending /\ Len(init) > 0 /\ a.feed_demand_year # {}) =>
        LET lastKnownYear == MaxOf({init[i].year : i \in DOMAIN init})
            seed == init[CHOOSE i \in DOMAIN init : init[i].year = lastKnownYear].inventory_tu
            lastYear == MaxOf({r.year : r \in a.feed_demand_year})
            rows == evolve_ret.rows
        IN  /\ evolve_ret.status = "ok"
            /\ Len(rows) = IF lastYear > lastKnownYear THEN lastYear - lastKnownYear ELSE 0
            /\ \A i \in DOMAIN rows :
                   LET t == lastKnownYear + i
                       prev == IF i = 1 THEN seed ELSE rows[i - 1].inventory_tu
                   IN  /\ rows[i].year = t
                       /\ rows[i].inventory_tu =
                              prev + YearTotal(a.primary_supply_year, "primary_supply_tu", t)
                                   + YearTotal(a.secondary_supply_year, "secondary_supply_tu", t)
                                   - YearTotal(a.feed_demand_year, "feed_tu", t)
                                   + PolicyFlowOf(a.inventory_scenarios, t)

\* Witness of C1: a two-year evolution from a seed series given latest row
\* first, with a policy flow, and with terms missing in the second year.
C1_Witness ==
    /\ evolve_ret # Pending
    /\ evolve_ret.status = "ok"
    /\ Len(evolve_ret.rows) = 2
    /\ Len(evolve_args.initial_inventories) = 2
    /\ evolve_args.initial_inventories[1].year > evolve_args.initial_inventories[2].year
    /\ {r.year : r \in evolve_args.primary_supply_year} = {evolve_ret.rows[1].year}
    /\ {r.year : r \in evolve_args.secondary_supply_year} = {evolve_ret.rows[2].year}
    /\ evolve_args.inventory_scenarios # None
    /\ evolve_args.inventory_scenarios.has_inventory_change_tu
    /\ evolve_args.inventory_scenarios.rows # {}

\* C2: evolve_inventories called with an initial-inventory series without
\* rows raises its ValueError (line 49) and produces no inventory row,
\* whatever the other arguments.
C2_EmptySeedIsFatal ==
    (evolve_ret # Pending /\ Len(evolve_args.initial_inventories) = 0) =>
        /\ evolve_ret.status = "ValueError"
        /\ evolve_ret.raised_at = 49
        /\ evolve_ret.rows = <<>>

\* Witness of C2: the call was made with an empty seed series and otherwise
\* complete inputs.
C2_Witness ==
    /\ evolve_ret # Pending
    /\ Len(evolve_args.initial_inventories) = 0
    /\ evolve_args.feed_demand_year # {}
    /\ evolve_args.primary_supply_year # {}
    /\ evolve_args.inventory_scenarios # None

----------------------------------------------------------------------------
(* Secondary supply: core/secondary_supply.py, build_secondary_supply.     *)
(*                                                                         *)
(* A table is a record [columns, rows], rows being a set of rows [year,    *)
(* secondary_supply_tu, heu_tu, underfeeding_tu]; the two category columns *)
(* are cells.  Baseline and scenario tonnages are taken from disjoint      *)
(* ranges, so that the union of the rows is their concatenation.           *)

\* Bound of this model: the rows carry years 0..MaxSecondaryYear.
MaxSecondaryYear == 3

SecondaryYears == 0..MaxSecondaryYear
\* The requested range [start_year, end_year]: years lie before, inside and
\* after it.
SecondaryStart == 1
SecondaryEnd == MaxSecondaryYear - 1

SecondaryColumns == {"year", "secondary_supply_tu", "heu_tu", "underfeeding_tu"}

\* Lines 17-24: the rows in range, baseline and scenario, and their columns.
secondary_base(a) ==
    LET within(rows) == {r \in rows : r.year >= a.start_year /\ r.year <= a.end_year}
        base == IF a.secondary_supply_base.rows # {}
                THEN within(a.secondary_supply_base.rows)
                ELSE {}
    IN  IF a.secondary_scenarios # None /\ a.secondary_scenarios.rows # {}
        THEN [columns |-> a.secondary_supply_base.columns \cup a.secondary_scenarios.columns,
              rows |-> base \cup within(a.secondary_scenarios.rows)]
        ELSE [columns |-> a.secondary_supply_base.columns, rows |-> base]

\* The sum of a column of cells over rows, skipping NaN (groupby sum).
sum_of_cells(rows, col) ==
    LET valued == {r \in rows : r[col] # NaN}
    IN  SumOver(valued, [r \in valued |-> ValueOf(r[col])])

\* build_secondary_supply, lines 10-37: [status, raised_at, rows], one row
\* per year of the rows in range, ascending.
build_secondary_supply(a) ==
    LET base == secondary_base(a)
        years == {r.year : r \in base.rows}
        nth(k) == CHOOSE y \in years : Cardinality({z \in years : z < y}) = k - 1
        of_year(y) == {r \in base.rows : r.year = y}
    IN  IF base.rows = {}
        THEN [status |-> "ok", raised_at |-> 0, rows |-> <<>>]
        ELSE IF ~({"secondary_supply_tu", "heu_tu", "underfeeding_tu"} \subseteq base.columns)
        \* grouped.agg on a column the frame does not have
        THEN [status |-> "KeyError", raised_at |-> 31, rows |-> <<>>]
        ELSE [status |-> "ok", raised_at |-> 0,
              rows |-> [k \in 1..Cardinality(years) |->
                          [year |-> nth(k),
                           secondary_supply_tu |->
                               SumOver(of_year(nth(k)),
                                       [r \in of_year(nth(k)) |-> r.secondary_supply_tu]),
                           heu_tu |-> sum_of_cells(of_year(nth(k)), "heu_tu"),
                           underfeeding_tu |->
                               sum_of_cells(of_year(nth(k)), "underfeeding_tu")]]]

\* Baseline secondary supply: at most two rows (two of them may share a
\* year), with all columns or without the category columns (their cells are
\* then NaN, as a concatenation leaves them).
SecondaryBaseTables ==
    LET rows(full) == {[year |-> y, secondary_supply_tu |-> 50 + 2 * y + d,
                        heu_tu |-> IF full /\ d = 0 THEN Some(3) ELSE NaN,
                        underfeeding_tu |-> IF full THEN Some(1) ELSE NaN] :
                          y \in SecondaryYears, d \in {0, 1}}
    IN  {[columns |-> SecondaryColumns, rows |-> {x, y}] :
            x \in rows(TRUE), y \in rows(TRUE)}
        \cup {[columns |-> {"year", "secondary_supply_tu"}, rows |-> {x, y}] :
                 x \in rows(FALSE), y \in rows(FALSE)}
        \cup {[columns |-> {}, rows |-> {}]}

\* Scenario rows (already filtered to the scenario): None, or at most two
\* rows.
SecondaryScenarioTables ==
    LET rows == {[year |-> y, secondary_supply_tu |-> 80 + y,
                  heu_tu |-> Some(2), underfeeding_tu |-> NaN] : y \in SecondaryYears}
    IN  {None, [columns |-> SecondaryColumns, rows |-> {}]} \cup
        {[columns |-> SecondaryColumns, rows |-> {x, y}] : x \in rows, y \in rows}

InitSecondarySupply ==
    /\ secondary_args \in [secondary_supply_base : SecondaryBaseTables,
                           secondary_scenarios : SecondaryScenarioTables,
                           start_year : {SecondaryStart},
                           end_year : {SecondaryEnd}]
    /\ secondary_ret = Pending
    /\ evolve_args = NoCall
    /\ evolve_ret = Pending
    /\ demand_args = NoCall
    /\ demand_ret = Pending
    /\ fuel_args = NoCall
    /\ fuel_ret = Pending
    /\ supply_args = NoCall
    /\ supply_ret = Pending
    /\ balance_args = NoCall
    /\ balance_ret = Pending
    /\ panel_args = NoCall
    /\ panel_ret = Pending
    /\ chain_args = NoCall

\* The arguments after a call of build_secondary_supply: lines 17-37 assign
\* into no frame (base and scenario are copies, lines 17 and 21).
build_secondary_supply_inputs_after(a) == inputs_after(a, {})

\* The call of build_secondary_supply on the arguments held.
BuildSecondarySupply ==
    /\ secondary_args # NoCall
    /\ secondary_ret = Pending
    /\ secondary_ret' = build_secondary_supply(secondary_args)
    /\ secondary_args' = build_secondary_supply_inputs_after(secondary_args)
    /\ UNCHANGED <<evolve_args, evolve_ret, demand_args, demand_ret,
                   fuel_args, fuel_ret, supply_args, supply_ret,
                   balance_args, balance_ret, panel_args, panel_ret, chain_args>>

----------------------------------------------------------------------------
(* Reactor demand: core/demand.py.                                         *)
(*                                                                         *)
(* A DataFrame whose set of columns the code tests is a record [columns,   *)
(* rows].  Dates are modelled by their year.  reactor_generation is the    *)
(* empty table (every capacity factor is the default of the reactor type). *)
(* Of the output columns the model keeps reactor_id, year, first_core_tu,  *)
(* reload_tu, total_tu, product_assay and tails_assay (a cell); capacity   *)
(* factors are in hundredths.                                              *)

\* Bound of the demand model: dates and scenario years lie in 0..MaxDemandYear.
MaxDemandYear == 3

DemandYears == 0..MaxDemandYear
\* The requested horizon [start_year, end_year]: years lie before, inside and
\* after it.
HorizonStart == MaxDemandYear - 2
HorizonEnd == MaxDemandYear - 1

\* Columns of the reactor master table (data/reactors.py, build_reactor_master).
MasterColumns ==
    {"reactor_id", "pris_id", "name", "country", "reactor_type", "net_mwe",
     "commercial_operation_date", "permanent_shutdown_date", "status", "fuel_type"}

\* Columns _append_newbuilds requires of the project table (lines 52-60).
required ==
    {"reactor_id", "pris_id", "name", "country", "reactor_type", "net_mwe", "start_year"}

\* _lookup_params(fuel_params, reactor_type, column, default), lines 11-20.
\* fuel_params is a set of rows keyed by reactor_type, or None.
_lookup_params(fuel_params, reactor_type, column, default) ==
    IF fuel_params = None THEN default
    ELSE IF fuel_params.rows = {} THEN default
    ELSE IF "reactor_type" \notin fuel_params.columns THEN default
    ELSE LET row == {r \in fuel_params.rows : r.reactor_type = reactor_type}
         IN  IF row = {} \/ column \notin fuel_params.columns THEN default
             ELSE LET value == (CHOOSE r \in row : TRUE)[column]
                  IN  IF value # NaN THEN ValueOf(value) ELSE default

\* The rows of a scenario table that carry the named scenario (lines 31-32,
\* 47-48).
scenario_rows(table, scenario_name) ==
    SelectSeq(table.rows, LAMBDA r : r.scenario = scenario_name)

\* Variant of shutdown_override that finds no override.
shutdown_override_ignored(scenario_life, rid) == NaN

\* shutdown_override.get(rid): the override of reactor rid among the
\* scenario's rows (lines 36-39), NaN when it has none.
shutdown_override(scenario_life, rid) ==
    LET hits == {i \in DOMAIN scenario_life : scenario_life[i].reactor_id = rid}
    IN  IF hits = {} THEN NaN ELSE Some(scenario_life[CHOOSE i \in hits : TRUE].shutdown_year)

\* _apply_life_overrides, lines 23-40: the reactor table, with the column
\* shutdown_year_override only when the scenario has override rows.
_apply_life_overrides(reactor_master, reactor_life_scenarios, scenario_name) ==
    IF reactor_life_scenarios = None THEN reactor_master
    ELSE IF Len(reactor_life_scenarios.rows) = 0 THEN reactor_master
    ELSE LET scenario_life == scenario_rows(reactor_life_scenarios, scenario_name)
         IN  IF Len(scenario_life) = 0 THEN reactor_master
             ELSE [columns |-> reactor_master.columns \cup {"shutdown_year_override"},
                   rows |-> [i \in DOMAIN reactor_master.rows |->
                               [reactor_master.rows[i] EXCEPT
                                   !.shutdown_year_override =
                                       shutdown_override(scenario_life, reactor_master.rows[i].reactor_id)]]]

\* Variant of missing_columns that finds nothing missing.
missing_columns_unchecked(columns) == {}

\* missing = [c for c in required if c not in projects.columns] (line 62).
missing_columns(columns) == required \ columns

\* A project row as a reactor row (lines 66-70): commissioned on Jan 1 of its
\* start_year, no shutdown date, no override.
project_as_reactor(p) ==
    [reactor_id |-> p.reactor_id,
     reactor_type |-> p.reactor_type,
     net_mwe |-> p.net_mwe,
     commercial_operation_date |-> Some(p.start_year),
     permanent_shutdown_date |-> NaN,
     shutdown_year_override |-> NaN]

\* _append_newbuilds, lines 43-70: [status, raised_at, table].
_append_newbuilds(base, newbuild_projects, scenario_name) ==
    LET unchanged == [status |-> "ok", raised_at |-> 0, table |-> base]
    IN  IF newbuild_projects = None THEN unchanged
        ELSE IF Len(newbuild_projects.rows) = 0 THEN unchanged
        ELSE LET projects == scenario_rows(newbuild_projects, scenario_name)
             IN  IF Len(projects) = 0 THEN unchanged
                 ELSE IF missing_columns(newbuild_projects.columns) # {}
                 THEN [status |-> "ValueError", raised_at |-> 64, table |-> base]
                 ELSE [status |-> "ok", raised_at |-> 0,
                       table |->
                         [columns |-> base.columns \cup newbuild_projects.columns
                                        \cup {"commercial_operation_date",
                                              "permanent_shutdown_date", "status", "fuel_type"},
                          rows |-> base.rows \o
                                   [i \in DOMAIN projects |-> project_as_reactor(projects[i])]]]

\* Variant of is_first_core that marks the first year a reactor has a row.
is_first_core_of_panel(year, start, start_year) ==
    year = (IF start > start_year THEN start ELSE start_year)

\* is_first_core (line 135); start_year, the requested start, plays no part.
is_first_core(year, start, start_year) == year = start

\* first_core_tu of one row (lines 113, 129, 135-136): the first-core factor
\* times the net capacity in GWe in the commissioning year, else 0.
first_core_tu(r, year, start, a) ==
    LET first_core_factor ==
            _lookup_params(a.reactor_fuel_params, r.reactor_type, "first_core_tu_per_gwe", 0)
    IN  IF is_first_core(year, start, a.start_year) /\ r.net_mwe # NaN
        THEN (first_core_factor * ValueOf(r.net_mwe)) \div 1000
        ELSE 0

\* reload_tu of one row (lines 114-116, 126-131, 137): the reload factor times
\* the GW-years of the year (net capacity times the default capacity factor).
reload_tu(r, a) ==
    LET cf_default ==
            _lookup_params(a.reactor_fuel_params, r.reactor_type, "default_capacity_factor", 85)
        reload_factor ==
            _lookup_params(a.reactor_fuel_params, r.reactor_type, "reload_tu_per_gwe_year", 0)
    IN  IF r.net_mwe # NaN
        THEN (reload_factor * ValueOf(r.net_mwe) * cf_default) \div 100000
        ELSE 0

\* The last year the loop of lines 109-111 reaches: it runs to end_year and
\* breaks at the first year after shutdown.
last_year(shutdown, end_year) == IF shutdown < end_year THEN shutdown ELSE end_year

\* The rows one reactor contributes (lines 102-151).
reactor_rows(r, a) ==
    LET start == ValueOf(r.start_year)
        first == IF start > a.start_year THEN start ELSE a.start_year
        last == last_year(r.shutdown_year, a.end_year)
    IN  IF first > last THEN <<>>
        ELSE [i \in 1..(last - first + 1) |->
                [reactor_id |-> r.reactor_id,
                 year |-> first + i - 1,
                 first_core_tu |-> first_core_tu(r, first + i - 1, start, a),
                 reload_tu |-> reload_tu(r, a),
                 total_tu |-> first_core_tu(r, first + i - 1, start, a) + reload_tu(r, a),
                 product_assay |->
                     _lookup_params(a.reactor_fuel_params, r.reactor_type,
                                    "product_assay", 4500),
                 tails_assay |->
                     Some(_lookup_params(a.reactor_fuel_params, r.reactor_type,
                                         "tails_assay", 250))]]

RECURSIVE demand_rows(_, _)
\* The loop over reactors.iterrows() (line 101).
demand_rows(reactors, a) ==
    IF Len(reactors) = 0 THEN <<>>
    ELSE reactor_rows(Head(reactors), a) \o demand_rows(Tail(reactors), a)

\* Lines 88-93: start_year and shutdown_year of every reactor row.
with_years(rows, end_year) ==
    [i \in DOMAIN rows |->
        [reactor_id |-> rows[i].reactor_id,
         reactor_type |-> rows[i].reactor_type,
         net_mwe |-> rows[i].net_mwe,
         start_year |-> rows[i].commercial_operation_date,
         shutdown_year |->
             ValueOf(fillna(fillna(rows[i].shutdown_year_override,
                                   rows[i].permanent_shutdown_date),
                            Some(end_year)))]]

\* compute_reactor_demand, lines 73-154.
compute_reactor_demand(a) ==
    LET overridden == _apply_life_overrides(a.reactor_master, a.reactor_life_scenarios,
                                            a.scenario_name)
        appended == _append_newbuilds(overridden, a.newbuild_projects, a.scenario_name)
        failed(status, line) ==
            [status |-> status, raised_at |-> line, reactors |-> <<>>, rows |-> <<>>]
    IN  IF appended.status # "ok" THEN failed(appended.status, appended.raised_at)
        ELSE IF "shutdown_year_override" \notin appended.table.columns
        \* reactors["shutdown_year_override"]: no such column
        THEN failed("KeyError", 90)
        ELSE LET reactors == with_years(appended.table.rows, a.end_year)
             IN  IF \E i \in DOMAIN reactors : reactors[i].start_year = NaN
                 \* int(NaN): a reactor without commercial operation date
                 THEN failed("ValueError", 107)
                 ELSE [status |-> "ok", raised_at |-> 0, reactors |-> reactors,
                       rows |-> demand_rows(reactors, a)]

\* The reactor master table: one reactor, every combination of a known or
\* missing commissioning date, shutdown date and net capacity.
ReactorMasterTables ==
    {[columns |-> MasterColumns,
      rows |-> <<[reactor_id |-> "R1", reactor_type |-> "PWR", net_mwe |-> mwe,
                  commercial_operation_date |-> c, permanent_shutdown_date |-> s,
                  shutdown_year_override |-> NaN]>>] :
        c \in {NaN} \cup {Some(y) : y \in DemandYears},
        s \in {NaN} \cup {Some(y) : y \in DemandYears},
        mwe \in {NaN, Some(1000)}}

\* Fuel parameters: no row, or the row of the reactor type.
FuelParamTables ==
    {[columns |-> {"reactor_type", "first_core_tu_per_gwe", "reload_tu_per_gwe_year"},
      rows |-> rs] :
        rs \in {{}, {[reactor_type |-> "PWR", first_core_tu_per_gwe |-> Some(4),
                      reload_tu_per_gwe_year |-> Some(20)]}}}

\* Life overrides: None, or a table with at most one row per scenario for the
\* master reactor (any year for the scenario asked for) and at most one row
\* of the scenario asked for that names the newbuild project.
LifeScenarioTables ==
    {None} \cup
    {[columns |-> {"scenario", "reactor_id", "shutdown_year"},
      rows |-> asked \o project \o other] :
        asked \in {<<>>} \cup {<<[scenario |-> "base", reactor_id |-> "R1", shutdown_year |-> y]>> :
                                  y \in DemandYears},
        project \in {<<>>, <<[scenario |-> "base", reactor_id |-> "N1", shutdown_year |-> 0]>>},
        other \in {<<>>, <<[scenario |-> "high", reactor_id |-> "R1", shutdown_year |-> 0]>>}}

\* Newbuild projects: None, or a table with at most one project per scenario,
\* with all required columns or lacking one of them.
NewbuildTables ==
    {None} \cup
    {[columns |-> cols, rows |-> asked \o other] :
        cols \in {required \cup {"scenario"},
                  (required \ {"pris_id"}) \cup {"scenario"},
                  (required \ {"net_mwe"}) \cup {"scenario"}},
        asked \in {<<>>} \cup
                  {<<[scenario |-> "base", reactor_id |-> "N1", reactor_type |-> "PWR",
                      net_mwe |-> Some(1000), start_year |-> y]>> : y \in DemandYears},
        other \in {<<>>,
                   <<[scenario |-> "high", reactor_id |-> "N2", reactor_type |-> "PWR",
                      net_mwe |-> Some(1000), start_year |-> HorizonEnd]>>}}

InitDemand ==
    /\ demand_args \in [reactor_master : ReactorMasterTables,
                        reactor_fuel_params : FuelParamTables,
                        reactor_life_scenarios : LifeScenarioTables,
                        newbuild_projects : NewbuildTables,
                        start_year : {HorizonStart},
                        end_year : {HorizonEnd},
                        scenario_name : {"base"}]
    /\ demand_ret = Pending
    /\ evolve_args = NoCall
    /\ evolve_ret = Pending
    /\ fuel_args = NoCall
    /\ fuel_ret = Pending
    /\ supply_args = NoCall
    /\ supply_ret = Pending
    /\ balance_args = NoCall
    /\ balance_ret = Pending
    /\ panel_args = NoCall
    /\ panel_ret = Pending
    /\ chain_args = NoCall
    /\ secondary_args = NoCall
    /\ secondary_ret = Pending

\* The arguments after a call of compute_reactor_demand.  The assignments of
\* line 39 and of lines 87-93 go into reactors, which is the copy of
\* reactor_master made at line 26 or, when projects were appended, the frame
\* pd.concat returned (line 70); those of lines 66-69 go into projects, the
\* copy of a selection of newbuild_projects (line 48).
compute_reactor_demand_inputs_after(a) ==
    LET copied == DataFrame_copy(argument("reactor_master", a.reactor_master))
        overridden == _apply_life_overrides(a.reactor_master, a.reactor_life_scenarios,
                                            a.scenario_name)
        with_override == setitem(copied, overridden)
        appended == _append_newbuilds(overridden, a.newbuild_projects, a.scenario_name)
        reactors == IF appended.table = overridden THEN with_override
                    ELSE new_frame(appended.table)
        projects == IF a.newbuild_projects = None THEN new_frame(None)
                    ELSE DataFrame_copy(new_frame(a.newbuild_projects))
        with_years_columns ==
            setitem(reactors,
                    [columns |-> reactors.table.columns \cup
                                   (IF "shutdown_year_override" \in reactors.table.columns
                                    THEN {"start_year", "shutdown_year"}
                                    ELSE {"start_year"}),
                     rows |-> reactors.table.rows])
    IN  inputs_after(a, IF appended.status = "ok"
                        THEN {with_years_columns, projects}
                        ELSE {with_override, projects})

\* The call of compute_reactor_demand on the arguments held.
ComputeReactorDemand ==
    /\ demand_args # NoCall
    /\ demand_ret = Pending
    /\ demand_ret' = compute_reactor_demand(demand_args)
    /\ demand_args' = compute_reactor_demand_inputs_after(demand_args)
    /\ UNCHANGED <<evolve_args, evolve_ret, fuel_args, fuel_ret,
                 supply_args, supply_ret, balance_args, balance_ret,
                 panel_args, panel_ret, chain_args,
                 secondary_args, secondary_ret>>

NextDemand == ComputeReactorDemand

SpecDemand == InitDemand /\ [][NextDemand]_vars

----------------------------------------------------------------------------
(* Properties of compute_reactor_demand.                                   *)

\* The override rows / project rows of the scenario asked for, read off the
\* arguments.
LifeRowsAsked(a) ==
    IF a.reactor_life_scenarios = None THEN {}
    ELSE {r \in {a.reactor_life_scenarios.rows[i] :
                     i \in DOMAIN a.reactor_life_scenarios.rows} :
             r.scenario = a.scenario_name}

ProjectsAsked(a) ==
    IF a.newbuild_projects = None THEN {}
    ELSE {p \in {a.newbuild_projects.rows[i] : i \in DOMAIN a.newbuild_projects.rows} :
             p.scenario = a.scenario_name}

\* The fleet of a call: every master reactor and every project of the scenario,
\* as [reactor_id, commissioned, shutdown]: the commissioning year (a cell),
\* and the shutdown year the specification gives the reactor.
FleetOf(a) ==
    {[reactor_id |-> a.reactor_master.rows[i].reactor_id,
      commissioned |-> a.reactor_master.rows[i].commercial_operation_date,
      shutdown |->
          LET o == {r \in LifeRowsAsked(a) :
                       r.reactor_id = a.reactor_master.rows[i].reactor_id}
          IN  IF o # {} THEN (CHOOSE r \in o : TRUE).shutdown_year
              ELSE IF a.reactor_master.rows[i].permanent_shutdown_date # NaN
                   THEN ValueOf(a.reactor_master.rows[i].permanent_shutdown_date)
                   ELSE a.end_year] : i \in DOMAIN a.reactor_master.rows}
    \cup
    {[reactor_id |-> p.reactor_id, commissioned |-> Some(p.start_year),
      shutdown |-> a.end_year] : p \in ProjectsAsked(a)}

\* The call meets no failure the claims on row coverage leave aside: every
\* reactor has a commissioning year and the project table, when it is used,
\* has its required columns.
WellFormedFleet(a) ==
    /\ \A f \in FleetOf(a) : f.commissioned # NaN
    /\ (ProjectsAsked(a) # {} => required \subseteq a.newbuild_projects.columns)

\* The rows of the output as a set of positions.
RowsOf(ret) == IF ret = Pending THEN {} ELSE DOMAIN ret.rows

\* C3: in the output of compute_reactor_demand a reactor commissioned in
\* year Y has a non-zero first_core_tu at most in its row of year Y; a
\* reactor commissioned before start_year has first_core_tu 0 in all rows.
C3_FirstCoreTiming ==
    \A i \in RowsOf(demand_ret) :
        \A f \in FleetOf(demand_args) :
            f.reactor_id = demand_ret.rows[i].reactor_id =>
                /\ (demand_ret.rows[i].first_core_tu # 0 =>
                        demand_ret.rows[i].year = ValueOf(f.commissioned))
                /\ (ValueOf(f.commissioned) < demand_args.start_year =>
                        demand_ret.rows[i].first_core_tu = 0)

\* Witness of C3: one reactor has a first-core charge in its commissioning
\* year and a later row without one, while a reactor commissioned before the
\* requested start has rows.
C3_Witness ==
    /\ \E i, j \in RowsOf(demand_ret) :
          /\ demand_ret.rows[i].reactor_id = demand_ret.rows[j].reactor_id
          /\ demand_ret.rows[i].first_core_tu > 0
          /\ demand_ret.rows[j].year > demand_ret.rows[i].year
          /\ demand_ret.rows[j].first_core_tu = 0
    /\ \E k \in RowsOf(demand_ret) :
          \E f \in FleetOf(demand_args) :
              /\ f.reactor_id = demand_ret.rows[k].reactor_id
              /\ ValueOf(f.commissioned) < demand_args.start_year

\* The (reactor, year) pairs the specification gives rows to.
ExpectedReactorYears(a) ==
    UNION {{<<f.reactor_id, y>> :
               y \in {z \in DemandYears :
                         /\ z >= ValueOf(f.commissioned) /\ z >= a.start_year
                         /\ z <= f.shutdown /\ z <= a.end_year}} : f \in FleetOf(a)}

\* C4: compute_reactor_demand outputs exactly one row for each (reactor,
\* year) with max(commissioning year, start_year) <= year <= min(shutdown
\* year, end_year) and no other row.  (Stated for calls whose reactors all
\* have a commissioning year and whose project table is valid.)
C4_OneRowPerReactorYear ==
    (demand_ret # Pending /\ WellFormedFleet(demand_args)) =>
        /\ demand_ret.status = "ok"
        /\ {<<demand_ret.rows[i].reactor_id, demand_ret.rows[i].year>> :
               i \in DOMAIN demand_ret.rows} = ExpectedReactorYears(demand_args)
        /\ \A i, j \in DOMAIN demand_ret.rows :
               (/\ demand_ret.rows[i].reactor_id = demand_ret.rows[j].reactor_id
                /\ demand_ret.rows[i].year = demand_ret.rows[j].year) => i = j

\* C5: overrides are optional: given no override table, an empty one, or one
\* without a row for the named scenario, compute_reactor_demand completes and
\* each reactor's shutdown year is the year of its permanent_shutdown_date,
\* or end_year when that date is missing.  (Stated for calls whose reactors
\* all have a commissioning year and whose project table is valid.)
C5_OverridesOptional ==
    (/\ demand_ret # Pending
     /\ WellFormedFleet(demand_args)
     /\ LifeRowsAsked(demand_args) = {}) =>
        /\ demand_ret.status = "ok"
        /\ \A i \in DOMAIN demand_ret.reactors :
               \E f \in FleetOf(demand_args) :
                   /\ f.reactor_id = demand_ret.reactors[i].reactor_id
                   /\ demand_ret.reactors[i].shutdown_year = f.shutdown

\* The project table of the call lacks a required column.
LacksRequiredColumn(a) ==
    /\ a.newbuild_projects # None
    /\ ~(required \subseteq a.newbuild_projects.columns)

\* C6 as stated: whenever the project table lacks a required column the call
\* fails and returns no demand rows.
C6_MissingColumnsAlwaysFatal ==
    (demand_ret # Pending /\ LacksRequiredColumn(demand_args)) =>
        /\ demand_ret.status # "ok"
        /\ demand_ret.rows = <<>>

\* C6 amended: when the project table lacks a required column and has at
\* least one row for the named scenario, the call fails with the validation
\* error of _append_newbuilds (line 64) and returns no demand rows.
C6_MissingColumnsFatalWhenUsed ==
    (/\ demand_ret # Pending
     /\ LacksRequiredColumn(demand_args)
     /\ ProjectsAsked(demand_args) # {}) =>
        /\ demand_ret.status = "ValueError"
        /\ demand_ret.raised_at = 64
        /\ demand_ret.rows = <<>>

\* Witness of C6: a call was made with a project of the named scenario in a
\* table lacking a required column, and with overrides in force.
C6_Witness ==
    /\ demand_ret # Pending
    /\ LacksRequiredColumn(demand_args)
    /\ ProjectsAsked(demand_args) # {}
    /\ LifeRowsAsked(demand_args) # {}
    /\ demand_ret.status = "ValueError"

\* The arguments of a call without the override rows of other scenarios.
WithoutOtherScenarios(a) ==
    IF a.reactor_life_scenarios = None THEN a
    ELSE [a EXCEPT !.reactor_life_scenarios.rows =
                       SelectSeq(a.reactor_life_scenarios.rows,
                                 LAMBDA r : r.scenario = a.scenario_name)]

\* C14: when compute_reactor_demand completes, the shutdown year used for a
\* reactor of the master table is the shutdown_year of the override row
\* matching its reactor_id and the named scenario when there is such a row,
\* whatever its permanent_shutdown_date (its rows end in that year or in
\* end_year, whichever is earlier); and the outcome of the call is the one
\* it has without the override rows of other scenarios.
C14_OverridePrecedence ==
    demand_ret # Pending =>
        /\ demand_ret = compute_reactor_demand(WithoutOtherScenarios(demand_args))
        /\ demand_ret.status = "ok" =>
               \A i \in DOMAIN demand_args.reactor_master.rows :
                   LET rid == demand_args.reactor_master.rows[i].reactor_id
                       o == {r \in LifeRowsAsked(demand_args) : r.reactor_id = rid}
                       years == {demand_ret.rows[k].year :
                                    k \in {n \in DOMAIN demand_ret.rows :
                                              demand_ret.rows[n].reactor_id = rid}}
                   IN  \A r \in o :
                           /\ demand_ret.reactors[i].reactor_id = rid
                           /\ demand_ret.reactors[i].shutdown_year = r.shutdown_year
                           /\ \A y \in years : y <= r.shutdown_year
                           /\ \A y \in DemandYears :
                                  (/\ y >= ValueOf(demand_ret.reactors[i].start_year)
                                   /\ y >= demand_args.start_year
                                   /\ y <= r.shutdown_year
                                   /\ y <= demand_args.end_year) => y \in years

\* Witness of C14: the override of the named scenario extends the life of a
\* reactor whose master shutdown date lies before the horizon, to the last
\* year of the horizon, while an override of another scenario names an
\* earlier year.
C14_Witness ==
    /\ demand_ret # Pending
    /\ demand_ret.status = "ok"
    /\ demand_args.reactor_master.rows[1].permanent_shutdown_date = Some(0)
    /\ \E r \in LifeRowsAsked(demand_args) :
          r.reactor_id = "R1" /\ r.shutdown_year = HorizonEnd
    /\ \E i \in DOMAIN demand_args.reactor_life_scenarios.rows :
          demand_args.reactor_life_scenarios.rows[i].scenario # demand_args.scenario_name
    /\ \E k \in DOMAIN demand_ret.rows :
          demand_ret.rows[k].reactor_id = "R1" /\ demand_ret.rows[k].year = HorizonEnd

\* C15: every newbuild project of the named scenario has demand rows for
\* exactly the years from max(its start_year, the requested start_year)
\* through end_year, and projects of other scenarios have no rows.  (Stated
\* for calls whose reactors all have a commissioning year and whose project
\* table is valid.)
C15_NewbuildRows ==
    (demand_ret # Pending /\ WellFormedFleet(demand_args)) =>
        /\ \A p \in ProjectsAsked(demand_args) :
               /\ demand_ret.status = "ok"
               /\ {demand_ret.rows[k].year :
                      k \in {n \in DOMAIN demand_ret.rows :
                                demand_ret.rows[n].reactor_id = p.reactor_id}}
                    = {y \in DemandYears : /\ y >= p.start_year
                                           /\ y >= demand_args.start_year
                                           /\ y <= demand_args.end_year}
        /\ (demand_ret.status = "ok" /\ demand_args.newbuild_projects # None) =>
               \A j \in DOMAIN demand_args.newbuild_projects.rows :
                   demand_args.newbuild_projects.rows[j].scenario # demand_args.scenario_name =>
                       \A k \in DOMAIN demand_ret.rows :
                           demand_ret.rows[k].reactor_id
                               # demand_args.newbuild_projects.rows[j].reactor_id

----------------------------------------------------------------------------
(* Fuel-cycle math: core/fuel_cycle.py.                                    *)
(*                                                                         *)
(* Assays are integers in units of 1e-5.  A float computed by division is  *)
(* kept as an exact fraction <<numerator, denominator>>; separative work   *)
(* and cost are in thousandths (the value function is tabulated to three   *)
(* decimals).  A price is None, the float NaN, or a number.                *)

\* config/constants.py
NATURAL_U235_ASSAY == 711
DEFAULT_TAILS_ASSAY == 250

\* Prices as optimize_tails_assay may receive them.
PriceNone == [kind |-> "None", value |-> 0]
PriceNaN == [kind |-> "nan", value |-> 0]
Price(v) == [kind |-> "float", value |-> v]

\* 1000 * (1 - 2x) * ln((1 - x) / x), rounded, for the assays x of the model.
ValueTable ==
    100 :> 6893 @@ 105 :> 6844 @@ 110 :> 6796 @@ 115 :> 6751 @@ 120 :> 6708 @@
    125 :> 6667 @@ 130 :> 6627 @@ 135 :> 6588 @@ 141 :> 6544 @@ 146 :> 6509 @@
    150 :> 6481 @@ 151 :> 6475 @@ 156 :> 6441 @@ 161 :> 6409 @@ 166 :> 6378 @@
    171 :> 6348 @@ 175 :> 6324 @@ 176 :> 6318 @@ 182 :> 6284 @@ 187 :> 6256 @@
    192 :> 6229 @@ 197 :> 6203 @@ 200 :> 6188 @@ 202 :> 6178 @@ 207 :> 6153 @@
    212 :> 6128 @@ 217 :> 6104 @@ 223 :> 6076 @@ 225 :> 6067 @@ 228 :> 6054 @@
    233 :> 6031 @@ 238 :> 6010 @@ 243 :> 5988 @@ 248 :> 5967 @@ 250 :> 5959 @@
    253 :> 5947 @@ 258 :> 5927 @@ 264 :> 5903 @@ 269 :> 5884 @@ 274 :> 5865 @@
    275 :> 5861 @@ 279 :> 5846 @@ 284 :> 5828 @@ 289 :> 5810 @@ 294 :> 5792 @@
    300 :> 5771 @@ 511 :> 5218 @@ 611 :> 5029 @@ 711 :> 4869 @@ 811 :> 4729 @@
    900 :> 4617 @@ 911 :> 4604 @@ 2700 :> 3391 @@ 4500 :> 2780

\* value_function(x), lines 21-23, in thousandths.
value_function(x) == ValueTable[x]

\* Variant of feed_over_product that subtracts the feed assay in the numerator.
feed_over_product_feed_assay(xf, xp, xt) == <<xp - xf, xf - xt>>

\* Variant of feed_over_product with the quotient inverted.
feed_over_product_inverted(xf, xp, xt) == <<xf - xt, xp - xt>>

\* feed_over_product = (xp - xt) / (xf - xt), line 33, as a fraction.
feed_over_product(xf, xp, xt) == <<xp - xt, xf - xt>>

\* feed_and_swu_for_product(product_tu, params), lines 26-38: f_mass and swu
\* as fractions over the denominator of feed_over_product (which is 0 when
\* feed_assay = tails_assay; the callers say what the division does then).
feed_and_swu_for_product(product_tu, params) ==
    LET xf == params.feed_assay
        xp == params.product_assay
        xt == params.tails_assay
        p == product_tu
        fop == feed_over_product(xf, xp, xt)
        den == fop[2]
        f_mass == fop[1] * p                 \* over den
        w_mass == f_mass - p * den           \* over den
        swu == p * value_function(xp) * den + w_mass * value_function(xt)
                 - f_mass * value_function(xf)   \* over den, in thousandths
    IN  [f_mass |-> <<f_mass, den>>, swu |-> <<swu, den>>]

\* A fraction with a positive denominator.
Normalized(q) == IF q[2] < 0 THEN <<0 - q[1], 0 - q[2]>> ELSE q

\* q < r for fractions with non-zero denominators, decided on the integer
\* parts first and on the remainders then.
FractionLess(q, r) ==
    LET a == Normalized(q)
        b == Normalized(r)
    IN  IF a[1] \div a[2] # b[1] \div b[2]
        THEN a[1] \div a[2] < b[1] \div b[2]
        ELSE (a[1] % a[2]) * b[2] < (b[1] % b[2]) * a[2]

\* q > n for a fraction q with non-zero denominator and an integer n.
FractionGreater(q, n) == FractionLess(<<n, 1>>, q)

\* cost = u_price * feed_tu + swu_price * swu (line 60) for one candidate
\* tails assay: NaN when a price is NaN or when the candidate equals the feed
\* assay (inf - inf in numpy floats), else a fraction in thousandths.
cost_of(tails, a) ==
    LET fs == feed_and_swu_for_product(
                  1, [feed_assay |-> a.feed_assay, product_assay |-> a.product_assay,
                      tails_assay |-> tails])
    IN  IF a.u_price_usd_per_lb.kind = "nan" \/ a.swu_price_usd_per_swu.kind = "nan"
           \/ fs.f_mass[2] = 0
        THEN [kind |-> "nan", value |-> <<0, 1>>]
        ELSE [kind |-> "float",
              value |-> <<a.u_price_usd_per_lb.value * fs.f_mass[1] * 1000
                            + a.swu_price_usd_per_swu.value * fs.swu[1],
                          fs.f_mass[2]>>]

\* Variant of cost_less that also takes a candidate of equal cost.
cost_less_or_equal(cost, best_cost) ==
    /\ cost.kind = "float"
    /\ \/ best_cost.kind = "inf"
       \/ ~FractionLess(best_cost.value, cost.value)

\* cost < best_cost (line 61); best_cost is float("inf") or an earlier cost.
cost_less(cost, best_cost) ==
    /\ cost.kind = "float"
    /\ \/ best_cost.kind = "inf"
       \/ FractionLess(cost.value, best_cost.value)

\* np.linspace(start, stop, num): num evenly spaced points, the last one stop
\* (a point that is no multiple of 1e-5 is cut to one: the default grid of 40
\* points has such points, the grids of the direct calls drawn below do not).
linspace(start, stop, num) ==
    IF num = 0 THEN <<>>
    ELSE IF num = 1 THEN <<start>>
    ELSE [i \in 1..num |->
            IF i = num THEN stop
            ELSE start + ((i - 1) * (stop - start)) \div (num - 1)]

\* Variant of initial_best_tails that starts from the default tails assay.
initial_best_tails_default(tails_grid) == DEFAULT_TAILS_ASSAY

\* best_tails = tails_grid[0] (line 55).
initial_best_tails(tails_grid) == tails_grid[1]

RECURSIVE grid_search(_, _, _, _)
\* The loop of lines 57-63 from candidate i on; best = [tails, cost].
grid_search(tails_grid, i, best, a) ==
    IF i > Len(tails_grid) THEN best
    ELSE LET cost == cost_of(tails_grid[i], a)
         IN  IF cost_less(cost, best.cost)
             THEN grid_search(tails_grid, i + 1, [tails |-> tails_grid[i], cost |-> cost], a)
             ELSE grid_search(tails_grid, i + 1, best, a)

\* Variant of price_absent that asks for both prices to be None.
price_absent_both(u_price, swu_price) == u_price = PriceNone /\ swu_price = PriceNone

\* The guard of line 50.
price_absent(u_price, swu_price) == u_price = PriceNone \/ swu_price = PriceNone

\* optimize_tails_assay, lines 41-64.
optimize_tails_assay(a) ==
    IF price_absent(a.u_price_usd_per_lb, a.swu_price_usd_per_swu)
    THEN [status |-> "ok", raised_at |-> 0, tails |-> DEFAULT_TAILS_ASSAY]
    ELSE LET tails_grid == linspace(a.bounds[1], a.bounds[2], a.grid_points)
         IN  IF Len(tails_grid) = 0
             \* tails_grid[0] of an empty grid
             THEN [status |-> "IndexError", raised_at |-> 54, tails |-> 0]
             ELSE [status |-> "ok", raised_at |-> 0,
                   tails |-> grid_search(tails_grid, 1,
                                         [tails |-> initial_best_tails(tails_grid),
                                          cost |-> [kind |-> "inf", value |-> <<0, 1>>]],
                                         a).tails]

\* A direct call of feed_and_swu_for_product with Python floats: the division
\* of line 33 raises when feed_assay = tails_assay.
call_feed_and_swu_for_product(a) ==
    IF a.params.feed_assay = a.params.tails_assay
    THEN [status |-> "ZeroDivisionError", raised_at |-> 33,
          f_mass |-> <<0, 1>>, swu |-> <<0, 1>>]
    ELSE LET r == feed_and_swu_for_product(a.product_tu, a.params)
         IN  [status |-> "ok", raised_at |-> 0, f_mass |-> r.f_mass, swu |-> r.swu]

\* Defaults of optimize_tails_assay (lines 46-47): bounds = (0.001, 0.003),
\* grid_points = 40.
DEFAULT_BOUNDS == <<100, 300>>
DEFAULT_GRID_POINTS == 40

\* The distinct years of a table given as a sequence of rows, ascending
\* (the groups of groupby("year")).
years_of(rows) ==
    LET years == {rows[i].year : i \in DOMAIN rows}
        nth(k) == CHOOSE y \in years : Cardinality({z \in years : z < y}) = k - 1
    IN  [k \in 1..Cardinality(years) |-> nth(k)]

\* The mean of a column of cells over the rows at the positions given,
\* skipping NaN: a cell, NaN when there is no value (the model's values have
\* whole means).
mean_of(rows, at, col) ==
    LET valued == {i \in at : rows[i][col] # NaN}
    IN  IF valued = {} THEN NaN
        ELSE Some(SumOver(valued, [i \in valued |-> ValueOf(rows[i][col])])
                      \div Cardinality(valued))

\* yearly, lines 79-87: one row per year with the summed product, the mean
\* product assay and the mean tails assay of the year's rows.
yearly_of(reactor_demand) ==
    LET years == years_of(reactor_demand)
    IN  [k \in DOMAIN years |->
            LET at == {i \in DOMAIN reactor_demand : reactor_demand[i].year = years[k]}
            IN  [year |-> years[k],
                 product_tu |-> SumOver(at, [i \in at |-> reactor_demand[i].total_tu]),
                 product_assay |->
                     SumOver(at, [i \in at |-> reactor_demand[i].product_assay])
                         \div Cardinality(at),
                 fallback_tails |-> mean_of(reactor_demand, at, "tails_assay")]]

\* price_series.get(year, np.nan) if price_series is not None else np.nan
\* (lines 96-97): a cell.
price_of(price_series, year) ==
    IF price_series = None THEN NaN
    ELSE IF \E r \in price_series.rows : r.year = year
         THEN (CHOOSE r \in price_series.rows : r.year = year).price
         ELSE NaN

\* Variant of fallback_or_default that always takes the default.
fallback_or_default_always_default(fallback_tails, default_tails) == default_tails

\* fallback_tails if not np.isnan(fallback_tails) else default_tails (line 107).
fallback_or_default(fallback_tails, default_tails) ==
    IF fallback_tails # NaN THEN ValueOf(fallback_tails) ELSE default_tails

\* Lines 96-107: the tails assay of one year.
tails_of_year(row, a) ==
    LET u_price == price_of(a.u_price_series, row.year)
        swu_price == price_of(a.swu_price_series, row.year)
    IN  IF a.tails_policy = "optimize" /\ u_price # NaN /\ swu_price # NaN
        THEN optimize_tails_assay(
                 [u_price_usd_per_lb |-> Price(ValueOf(u_price)),
                  swu_price_usd_per_swu |-> Price(ValueOf(swu_price)),
                  product_assay |-> row.product_assay,
                  feed_assay |-> a.feed_assay,
                  bounds |-> DEFAULT_BOUNDS,
                  grid_points |-> DEFAULT_GRID_POINTS]).tails
        ELSE fallback_or_default(row.fallback_tails, a.default_tails)

\* compute_feed_and_swu_demand, lines 67-122: [status, raised_at, rows].  The
\* division of line 33 raises when a year's tails assay equals the feed assay.
compute_feed_and_swu_demand(a) ==
    IF Len(a.reactor_demand) = 0
    THEN [status |-> "ok", raised_at |-> 0, rows |-> <<>>]
    ELSE LET yearly == yearly_of(a.reactor_demand)
             tails == [k \in DOMAIN yearly |-> tails_of_year(yearly[k], a)]
         IN  IF \E k \in DOMAIN yearly : tails[k] = a.feed_assay
             THEN [status |-> "ZeroDivisionError", raised_at |-> 33, rows |-> <<>>]
             ELSE [status |-> "ok", raised_at |-> 0,
                   rows |-> [k \in DOMAIN yearly |->
                               LET fs == feed_and_swu_for_product(
                                             yearly[k].product_tu,
                                             [feed_assay |-> a.feed_assay,
                                              product_assay |-> yearly[k].product_assay,
                                              tails_assay |-> tails[k]])
                               IN  [year |-> yearly[k].year,
                                    product_tu |-> yearly[k].product_tu,
                                    feed_tu |-> fs.f_mass,
                                    swu_demand_swu |-> fs.swu,
                                    tails_assay_used |-> tails[k]]]]

\* Arguments of the calls.
Prices == {PriceNone, PriceNaN, Price(0), Price(1), Price(2), Price(20)}
ProductAssays == {900, 4500}
TailsBounds == {<<100, 300>>, <<100, 200>>, <<511, 911>>}
GridPoints == {0, 1, 2, 3, 5}
ParamAssays == {250, NATURAL_U235_ASSAY, 900, 4500}
ProductTu == {0, 1, 3}

InitFuelCycle ==
    /\ \/ fuel_args \in [fn : {"optimize_tails_assay"},
                         u_price_usd_per_lb : Prices,
                         swu_price_usd_per_swu : Prices,
                         product_assay : ProductAssays,
                         feed_assay : {NATURAL_U235_ASSAY},
                         bounds : TailsBounds,
                         grid_points : GridPoints]
       \/ fuel_args \in [fn : {"feed_and_swu_for_product"},
                         product_tu : ProductTu,
                         params : [feed_assay : ParamAssays,
                                   product_assay : ParamAssays,
                                   tails_assay : ParamAssays]]
    /\ fuel_ret = Pending
    /\ evolve_args = NoCall
    /\ evolve_ret = Pending
    /\ demand_args = NoCall
    /\ demand_ret = Pending
    /\ supply_args = NoCall
    /\ supply_ret = Pending
    /\ balance_args = NoCall
    /\ balance_ret = Pending
    /\ panel_args = NoCall
    /\ panel_ret = Pending
    /\ chain_args = NoCall
    /\ secondary_args = NoCall
    /\ secondary_ret = Pending

\* A call of optimize_tails_assay on the arguments held.
OptimizeTailsAssay ==
    /\ fuel_args # NoCall
    /\ fuel_args.fn = "optimize_tails_assay"
    /\ fuel_ret = Pending
    /\ fuel_ret' = optimize_tails_assay(fuel_args)
    /\ UNCHANGED <<fuel_args, evolve_args, evolve_ret, demand_args, demand_ret,
                 supply_args, supply_ret, balance_args, balance_ret,
                 panel_args, panel_ret, chain_args,
                 secondary_args, secondary_ret>>

\* A call of feed_and_swu_for_product on the arguments held.
FeedAndSwuForProduct ==
    /\ fuel_args # NoCall
    /\ fuel_args.fn = "feed_and_swu_for_product"
    /\ fuel_ret = Pending
    /\ fuel_ret' = call_feed_and_swu_for_product(fuel_args)
    /\ UNCHANGED <<fuel_args, evolve_args, evolve_ret, demand_args, demand_ret,
                 supply_args, supply_ret, balance_args, balance_ret,
                 panel_args, panel_ret, chain_args,
                 secondary_args, secondary_ret>>

NextFuelCycle == OptimizeTailsAssay \/ FeedAndSwuForProduct

SpecFuelCycle == InitFuelCycle /\ [][NextFuelCycle]_vars

----------------------------------------------------------------------------
(* Properties of the fuel-cycle math.                                      *)

\* A call of optimize_tails_assay / feed_and_swu_for_product has returned.
OptimizeReturned ==
    /\ fuel_args # NoCall
    /\ fuel_args.fn = "optimize_tails_assay"
    /\ fuel_ret # Pending

FeedAndSwuReturned ==
    /\ fuel_args # NoCall
    /\ fuel_args.fn = "feed_and_swu_for_product"
    /\ fuel_ret # Pending

\* C7: optimize_tails_assay returns exactly the default tails assay (0.0025)
\* whenever the uranium price or the SWU price is None, whatever the product
\* assay, feed assay, bounds and grid_points.
C7_DefaultTailsWithoutPrice ==
    (/\ OptimizeReturned
     /\ \/ fuel_args.u_price_usd_per_lb = PriceNone
        \/ fuel_args.swu_price_usd_per_swu = PriceNone) =>
        /\ fuel_ret.status = "ok"
        /\ fuel_ret.tails = 250

\* Witness of C7: the call returned with only the SWU price missing, bounds
\* that exclude the default and an empty grid.
C7_Witness ==
    /\ OptimizeReturned
    /\ fuel_args.u_price_usd_per_lb = Price(20)
    /\ fuel_args.swu_price_usd_per_swu = PriceNone
    /\ fuel_args.bounds = <<100, 200>>
    /\ fuel_args.grid_points = 0
    /\ fuel_ret.status = "ok"

\* C8 as stated: for every call of optimize_tails_assay the returned tails
\* assay lies within the bounds supplied to the call.
C8_TailsWithinBoundsAlways ==
    (OptimizeReturned /\ fuel_ret.status = "ok") =>
        /\ fuel_args.bounds[1] <= fuel_ret.tails
        /\ fuel_ret.tails <= fuel_args.bounds[2]

\* C8 amended: for every call of optimize_tails_assay with both prices given
\* (neither is None) and bounds[0] <= bounds[1], the returned tails assay
\* lies within the bounds supplied to the call.
C8_TailsWithinBoundsWhenPriced ==
    (/\ OptimizeReturned
     /\ fuel_ret.status = "ok"
     /\ fuel_args.u_price_usd_per_lb # PriceNone
     /\ fuel_args.swu_price_usd_per_swu # PriceNone
     /\ fuel_args.bounds[1] <= fuel_args.bounds[2]) =>
        /\ fuel_args.bounds[1] <= fuel_ret.tails
        /\ fuel_ret.tails <= fuel_args.bounds[2]

\* Witness of C8: a grid search over five candidates returned a point
\* strictly inside the bounds.
C8_Witness ==
    /\ OptimizeReturned
    /\ fuel_ret.status = "ok"
    /\ fuel_args.u_price_usd_per_lb.kind = "float"
    /\ fuel_args.swu_price_usd_per_swu.kind = "float"
    /\ fuel_args.grid_points = 5
    /\ fuel_args.bounds[1] < fuel_ret.tails
    /\ fuel_ret.tails < fuel_args.bounds[2]

\* C9: for feed_assay # tails_assay and any product_tu the feed returned by
\* feed_and_swu_for_product satisfies the U-235 mass balance
\* feed * feed_assay = product_tu * product_assay + (feed - product_tu) * tails_assay
\* (both sides multiplied by the denominator of the feed).
C9_MassBalance ==
    (FeedAndSwuReturned
     /\ fuel_args.params.feed_assay # fuel_args.params.tails_assay) =>
        LET feed == fuel_ret.f_mass
            p == fuel_args.product_tu
        IN  /\ fuel_ret.status = "ok"
            /\ feed[2] # 0
            /\ feed[1] * fuel_args.params.feed_assay
                 = p * fuel_args.params.product_assay * feed[2]
                   + (feed[1] - p * feed[2]) * fuel_args.params.tails_assay

\* Witness of C9: the function returned for natural feed, 4.5 % product,
\* default tails and a product mass above one.
C9_Witness ==
    /\ FeedAndSwuReturned
    /\ fuel_ret.status = "ok"
    /\ fuel_args.params = [feed_assay |-> 711, product_assay |-> 4500, tails_assay |-> 250]
    /\ fuel_args.product_tu = 3
    /\ fuel_ret.f_mass = <<12750, 461>>

\* C10 as stated: feed > product_tu whenever product_tu > 0 and
\* tails_assay < product_assay < feed_assay.
C10_FeedExceedsProductBelowFeedAssay ==
    (/\ FeedAndSwuReturned
     /\ fuel_args.product_tu > 0
     /\ fuel_args.params.tails_assay < fuel_args.params.product_assay
     /\ fuel_args.params.product_assay < fuel_args.params.feed_assay) =>
        /\ fuel_ret.status = "ok"
        /\ FractionGreater(fuel_ret.f_mass, fuel_args.product_tu)

\* C10 amended: feed > product_tu whenever product_tu > 0 and
\* tails_assay < feed_assay < product_assay (enrichment above the feed assay).
C10_FeedExceedsProduct ==
    (/\ FeedAndSwuReturned
     /\ fuel_args.product_tu > 0
     /\ fuel_args.params.tails_assay < fuel_args.params.feed_assay
     /\ fuel_args.params.feed_assay < fuel_args.params.product_assay) =>
        /\ fuel_ret.status = "ok"
        /\ FractionGreater(fuel_ret.f_mass, fuel_args.product_tu)

\* Witness of C10: the function returned for a product assay just above the
\* feed assay, where the feed exceeds the product by less than half.
C10_Witness ==
    /\ FeedAndSwuReturned
    /\ fuel_ret.status = "ok"
    /\ fuel_args.product_tu = 1
    /\ fuel_args.params = [feed_assay |-> 711, product_assay |-> 900, tails_assay |-> 250]
    /\ FractionGreater(fuel_ret.f_mass, 1)
    /\ ~FractionGreater(fuel_ret.f_mass, 2)

\* C17: with both prices given as numbers, optimize_tails_assay returns a
\* point of the uniform grid over bounds whose cost u_price * feed +
\* swu_price * swu per unit product is minimal among the grid points, and
\* among several points of minimal cost the one with the lowest tails assay
\* (the first of the ascending grid).
C17_MinimalCostFirstOnTies ==
    (/\ OptimizeReturned
     /\ fuel_ret.status = "ok"
     /\ fuel_args.u_price_usd_per_lb.kind = "float"
     /\ fuel_args.swu_price_usd_per_swu.kind = "float") =>
        LET grid == linspace(fuel_args.bounds[1], fuel_args.bounds[2], fuel_args.grid_points)
            cost(i) == cost_of(grid[i], fuel_args)
        IN  \E k \in DOMAIN grid :
                /\ grid[k] = fuel_ret.tails
                /\ cost(k).kind = "float"
                /\ \A i \in DOMAIN grid :
                       cost(i).kind = "float" => ~FractionLess(cost(i).value, cost(k).value)
                /\ \A i \in 1..(k - 1) :
                       cost(i).kind = "float" => FractionLess(cost(k).value, cost(i).value)
                /\ \A i \in 1..(k - 1) : grid[i] < grid[k]

\* Witness of C17: a search over five grid points of equal cost (both prices
\* zero) returned the first, lowest one.
C17_Witness ==
    /\ OptimizeReturned
    /\ fuel_ret.status = "ok"
    /\ fuel_args.u_price_usd_per_lb = Price(0)
    /\ fuel_args.swu_price_usd_per_swu = Price(0)
    /\ fuel_args.grid_points = 5
    /\ fuel_ret.tails = fuel_args.bounds[1]

----------------------------------------------------------------------------
(* Primary supply: core/primary_supply.py, build_primary_supply.           *)
(*                                                                         *)
(* The production tables are sets of rows [mine_id, year, production_tu];  *)
(* historical and scenario tonnages are taken from disjoint ranges, so     *)
(* that the union of the two tables is their concatenation.  The mine      *)
(* master table and the two returned tables are sequences of rows.         *)

\* Bound of the supply model: production rows carry years 0..MaxSupplyYear.
MaxSupplyYear == 3

SupplyYears == 0..MaxSupplyYear
\* The requested range [start_year, end_year]: years lie before, inside and
\* after it.
SupplyStart == 1
SupplyEnd == MaxSupplyYear - 1

\* Mines of the production tables; M3 is never in the mine master table.
MineIds == {"M1", "M2", "M3"}
MineNumber(m) == IF m = "M1" THEN 1 ELSE IF m = "M2" THEN 2 ELSE 3
CountryOf(m) == IF m = "M1" THEN "CA" ELSE "KZ"

\* Tonnages of the rows: historical rows carry 100 + 10 * mine + year or one
\* more (two rows of one mine and year differ), scenario rows 200 + ....
HistoricalTu(m, y) == 100 + 10 * MineNumber(m) + y
ScenarioTu(m, y) == 200 + 10 * MineNumber(m) + y

\* df[(df["year"] >= start_year) & (df["year"] <= end_year)]
in_range(rows, start_year, end_year) ==
    {r \in rows : r.year >= start_year /\ r.year <= end_year}

\* Variant of concat_production in which a scenario row replaces the
\* historical rows of its mine and year.
concat_production_override(base, scenario) ==
    {r \in base : ~\E q \in scenario : q.mine_id = r.mine_id /\ q.year = r.year}
        \cup scenario

\* pd.concat([base, scenario[["mine_id", "year", "production_tu"]]]), line 36.
concat_production(base, scenario) == base \cup scenario

\* Lines 24-36: the production rows in range, historical and scenario.
production_base(a) ==
    LET base == IF a.mine_production # {}
                THEN in_range(a.mine_production, a.start_year, a.end_year)
                ELSE {}
        scenario == IF a.mine_scenarios = None THEN {}
                    ELSE in_range(a.mine_scenarios.rows, a.start_year, a.end_year)
    IN  IF scenario # {} THEN concat_production(base, scenario) ELSE base

RECURSIVE unique(_)
\* Series.unique(): the values in order of first appearance.
unique(values) ==
    IF Len(values) = 0 THEN <<>>
    ELSE LET head == unique(SubSeq(values, 1, Len(values) - 1))
             v == values[Len(values)]
         IN  IF \E i \in DOMAIN head : head[i] = v THEN head ELSE Append(head, v)

RECURSIVE SetToSeq(_)
\* The elements of a finite set, in some order.
SetToSeq(S) ==
    IF S = {} THEN <<>>
    ELSE LET x == CHOOSE y \in S : TRUE
         IN  <<x>> \o SetToSeq(S \ {x})

\* mine_ids, line 39: the mines of the master table, or those of the
\* production rows when the master table is empty.
mine_ids(a) ==
    IF Len(a.mines.rows) # 0
    THEN unique([i \in DOMAIN a.mines.rows |-> a.mines.rows[i].mine_id])
    ELSE SetToSeq({r.mine_id : r \in production_base(a)})

\* MultiIndex.from_product([mine_ids, all_years]), lines 40-41.
template(ids, start_year, end_year) ==
    LET n == IF end_year >= start_year THEN end_year - start_year + 1 ELSE 0
    IN  [k \in 1..(Len(ids) * n) |->
            [mine_id |-> ids[((k - 1) \div n) + 1],
             year |-> start_year + ((k - 1) % n)]]

\* Lines 43-49: groupby(level=[0, 1]).sum().reindex(template, fill_value=0).
reindex_sum(base, tmpl) ==
    [k \in DOMAIN tmpl |->
        LET rows == {r \in base : r.mine_id = tmpl[k].mine_id /\ r.year = tmpl[k].year}
        IN  [mine_id |-> tmpl[k].mine_id, year |-> tmpl[k].year,
             production_tu |-> SumOver(rows, [r \in rows |-> r.production_tu])]]

\* Variant of mine_meta that keeps every row of the master table.
mine_meta_with_duplicates(mines) == mines.rows

\* mine_meta = mines[merge_cols].drop_duplicates("mine_id"), line 53: the
\* first row of every mine.
mine_meta(mines) ==
    LET keep == {i \in DOMAIN mines.rows :
                    ~\E j \in 1..(i - 1) : mines.rows[j].mine_id = mines.rows[i].mine_id}
        nth(k) == CHOOSE i \in keep : Cardinality({j \in keep : j < i}) = k - 1
    IN  [k \in 1..Cardinality(keep) |-> mines.rows[nth(k)]]

RECURSIVE merge_left(_, _, _)
\* mine_year.merge(mine_meta, on="mine_id", how="left"), line 54: every row
\* of mine_year once per matching row of mine_meta (once, without country,
\* when none matches).
merge_left(mine_year, meta, has_country) ==
    IF Len(mine_year) = 0 THEN <<>>
    ELSE LET r == Head(mine_year)
             hits == SelectSeq(meta, LAMBDA m : m.mine_id = r.mine_id)
             with(c) == [mine_id |-> r.mine_id, year |-> r.year,
                         production_tu |-> r.production_tu, country |-> c]
         IN  (IF Len(hits) = 0 THEN <<with(NaN)>>
              ELSE [i \in DOMAIN hits |->
                       with(IF has_country THEN Some(hits[i].country) ELSE NaN)])
             \o merge_left(Tail(mine_year), meta, has_country)

\* mine_year.groupby("year")["production_tu"].sum(), lines 55-57: one row per
\* year of mine_year, ascending.
primary_supply_of(mine_year, start_year, end_year) ==
    LET years == {mine_year[i].year : i \in DOMAIN mine_year}
        total(y) == LET at == {i \in DOMAIN mine_year : mine_year[i].year = y}
                    IN  SumOver(at, [i \in at |-> mine_year[i].production_tu])
        n == Cardinality(years)
        nth(k) == CHOOSE y \in years : Cardinality({z \in years : z < y}) = k - 1
    IN  [k \in 1..n |-> [year |-> nth(k), primary_supply_tu |-> total(nth(k))]]

\* build_primary_supply, lines 10-58: [status, mine_year, primary_supply].
build_primary_supply(a) ==
    LET base == production_base(a)
        tmpl == template(mine_ids(a), a.start_year, a.end_year)
        dense == reindex_sum(base, tmpl)
        mine_year ==
            IF Len(a.mines.rows) # 0
            THEN merge_left(dense, mine_meta(a.mines), "country" \in a.mines.columns)
            ELSE [k \in DOMAIN dense |->
                     [mine_id |-> dense[k].mine_id, year |-> dense[k].year,
                      production_tu |-> dense[k].production_tu, country |-> NaN]]
    IN  [status |-> "ok", mine_year |-> mine_year,
         primary_supply |-> primary_supply_of(mine_year, a.start_year, a.end_year)]

\* The mine master table: empty, or some mines (one may be listed twice),
\* with or without the column country.
MineTables ==
    {[columns |-> cols,
      rows |-> [i \in DOMAIN ids |-> [mine_id |-> ids[i], country |-> CountryOf(ids[i])]]] :
        cols \in {{"mine_id", "country"}, {"mine_id"}},
        ids \in {<<>>, <<"M1">>, <<"M1", "M2">>, <<"M2", "M1", "M1">>}}

\* The subsets of S of at most two elements.
AtMostTwo(S) == {{}} \cup {{x, y} : x \in S, y \in S}

\* Historical production: at most two rows (two of them may share mine and
\* year).
MineProductionTables ==
    AtMostTwo({[mine_id |-> m, year |-> y, production_tu |-> HistoricalTu(m, y) + d] :
                  m \in MineIds, y \in SupplyYears, d \in {0, 1}})

\* Scenario production (already filtered to the scenario): None, or at most
\* two rows.
MineScenarioTables ==
    {None} \cup
    {[rows |-> t] :
        t \in AtMostTwo({[mine_id |-> m, year |-> y, production_tu |-> ScenarioTu(m, y)] :
                             m \in MineIds, y \in SupplyYears})}

InitPrimarySupply ==
    /\ supply_args \in [mines : MineTables,
                        mine_production : MineProductionTables,
                        mine_scenarios : MineScenarioTables,
                        start_year : {SupplyStart},
                        end_year : {SupplyEnd}]
    /\ supply_ret = Pending
    /\ evolve_args = NoCall
    /\ evolve_ret = Pending
    /\ demand_args = NoCall
    /\ demand_ret = Pending
    /\ fuel_args = NoCall
    /\ fuel_ret = Pending
    /\ balance_args = NoCall
    /\ balance_ret = Pending
    /\ panel_args = NoCall
    /\ panel_ret = Pending
    /\ chain_args = NoCall
    /\ secondary_args = NoCall
    /\ secondary_ret = Pending

\* The arguments after a call of build_primary_supply: lines 24-57 assign
\* into no frame (base and scenario are copies, lines 24 and 30).
build_primary_supply_inputs_after(a) == inputs_after(a, {})

\* The call of build_primary_supply on the arguments held.
BuildPrimarySupply ==
    /\ supply_args # NoCall
    /\ supply_ret = Pending
    /\ supply_ret' = build_primary_supply(supply_args)
    /\ supply_args' = build_primary_supply_inputs_after(supply_args)
    /\ UNCHANGED <<evolve_args, evolve_ret, demand_args, demand_ret,
                   fuel_args, fuel_ret, balance_args, balance_ret,
                   panel_args, panel_ret, chain_args,
                   secondary_args, secondary_ret>>

NextPrimarySupply == BuildPrimarySupply

SpecPrimarySupply == InitPrimarySupply /\ [][NextPrimarySupply]_vars

----------------------------------------------------------------------------
(* Properties of build_primary_supply.                                     *)

\* All production rows given to the call, historical and scenario.
InputProduction(a) ==
    a.mine_production \cup (IF a.mine_scenarios = None THEN {} ELSE a.mine_scenarios.rows)

\* The known mines of a call: those of the mine master table or, when that
\* table is empty, those with production rows in the requested range.
KnownMines(a) ==
    IF Len(a.mines.rows) # 0
    THEN {a.mines.rows[i].mine_id : i \in DOMAIN a.mines.rows}
    ELSE {r.mine_id : r \in {q \in InputProduction(a) :
                                q.year >= a.start_year /\ q.year <= a.end_year}}

\* The rows of the mine-level table for mine m and year y, as positions.
MineYearRows(ret, m, y) ==
    {i \in DOMAIN ret.mine_year : ret.mine_year[i].mine_id = m /\ ret.mine_year[i].year = y}

\* C11: the mine-level table returned by build_primary_supply has exactly
\* (number of distinct known mines) x (end_year - start_year + 1) rows, one
\* for each (mine, year), and production_tu is 0 for every (mine, year) that
\* has no row in either the historical or the scenario input.
C11_DenseMineGrid ==
    supply_ret # Pending =>
        LET a == supply_args
        IN  /\ Len(supply_ret.mine_year)
                 = Cardinality(KnownMines(a)) * (a.end_year - a.start_year + 1)
            /\ \A m \in KnownMines(a) : \A y \in a.start_year..a.end_year :
                   /\ Cardinality(MineYearRows(supply_ret, m, y)) = 1
                   /\ (~\E r \in InputProduction(a) : r.mine_id = m /\ r.year = y) =>
                          \A i \in MineYearRows(supply_ret, m, y) :
                              supply_ret.mine_year[i].production_tu = 0

\* Witness of C11: a master table listing a mine twice, one mine with
\* production in one year of the range only, the other with none at all.
C11_Witness ==
    /\ supply_ret # Pending
    /\ Len(supply_args.mines.rows) = 3
    /\ Len(supply_ret.mine_year) = 2 * (SupplyEnd - SupplyStart + 1)
    /\ \E i, j, k \in DOMAIN supply_ret.mine_year :
          /\ supply_ret.mine_year[i].mine_id = "M1"
          /\ supply_ret.mine_year[i].production_tu > 0
          /\ supply_ret.mine_year[j].mine_id = "M1"
          /\ supply_ret.mine_year[j].production_tu = 0
          /\ supply_ret.mine_year[k].mine_id = "M2"
    /\ \A k \in DOMAIN supply_ret.mine_year :
          supply_ret.mine_year[k].mine_id = "M2" => supply_ret.mine_year[k].production_tu = 0

\* The input rows of mine m and year y.
ProductionRows(a, m, y) == {r \in InputProduction(a) : r.mine_id = m /\ r.year = y}

ProductionOfYear(a, y) == {r \in InputProduction(a) : r.year = y}

\* C23: for every year of [start_year, end_year], primary_supply_tu is the
\* sum of production_tu over all historical and scenario rows of the year,
\* those of mines absent from the mine master table included (a year without
\* a row in the aggregated table has no production).
C23_NoProductionLost ==
    supply_ret # Pending =>
        LET a == supply_args
        IN  \A y \in a.start_year..a.end_year :
                LET at == {k \in DOMAIN supply_ret.primary_supply :
                              supply_ret.primary_supply[k].year = y}
                    produced == SumOver(ProductionOfYear(a, y),
                                        [r \in ProductionOfYear(a, y) |-> r.production_tu])
                IN  /\ Cardinality(at) <= 1
                    /\ \A k \in at : supply_ret.primary_supply[k].primary_supply_tu = produced
                    /\ (at = {} => produced = 0)

----------------------------------------------------------------------------
(* Balance panel: core/balances.py, build_sd_panel.                        *)
(*                                                                         *)
(* feed_demand is a sequence of rows (the forward fill of line 40 runs in  *)
(* its row order); the supply, inventory and capacity-balance panels are   *)
(* keyed by year.  feed_tu is a fraction <<numerator, denominator>>, as    *)
(* feed_and_swu_for_product returns it, and so is every quotient or        *)
(* difference taken with it; a zero denominator is the inf or nan of the   *)
(* float division.  An optional column that was not merged is a NaN cell.  *)

\* Bound of the panel model: the rows of the panels carry years 1..MaxPanelYear.
MaxPanelYear == 3

PanelYears == 1..MaxPanelYear

\* feed_tu of the feed-demand row of a year: zero in the first year, a
\* fraction in the others.
PanelFeedTu(y) == IF y = 1 THEN <<0, 1>> ELSE <<25 * y, 2>>

\* The cell a left merge on year gives a row: the right table's value of
\* column col for the year, NaN when the right table has no row for it.
merge_on_year(table, col, year) ==
    IF \E r \in table : r.year = year
    THEN Some((CHOOSE r \in table : r.year = year)[col])
    ELSE NaN

RECURSIVE ffill(_)
\* Series.fillna(method="ffill") on a column given as a sequence of cells:
\* a NaN cell takes the value of the row before it.
ffill(cells) ==
    IF Len(cells) = 0 THEN <<>>
    ELSE LET head == ffill(SubSeq(cells, 1, Len(cells) - 1))
             last == cells[Len(cells)]
         IN  Append(head, IF last = NaN /\ Len(head) > 0 THEN head[Len(head)] ELSE last)

\* Lines 21-24: the inventory_tu column after the merge, in feed row order.
inventory_column(feed_demand, inventories) ==
    IF inventories # None /\ inventories.rows # {}
    THEN [i \in DOMAIN feed_demand |->
             merge_on_year(inventories.rows, "inventory_tu", feed_demand[i].year)]
    ELSE [i \in DOMAIN feed_demand |-> Some(0)]

\* Lines 26-33: a column of an optional capacity-balance panel.
balance_column(feed_demand, balance, col) ==
    IF balance # None /\ balance.rows # {}
    THEN [i \in DOMAIN feed_demand |-> merge_on_year(balance.rows, col, feed_demand[i].year)]
    ELSE [i \in DOMAIN feed_demand |-> NaN]

\* Variant of balance_tu_of that subtracts supply from demand.
balance_tu_of_demand_less_supply(total_supply_tu, feed_tu) ==
    <<feed_tu[1] - total_supply_tu * feed_tu[2], feed_tu[2]>>

\* total_supply_tu - feed_tu (line 38).
balance_tu_of(total_supply_tu, feed_tu) ==
    <<total_supply_tu * feed_tu[2] - feed_tu[1], feed_tu[2]>>

\* Variant of balance_ratio_of that divides demand by supply.
balance_ratio_inverted(total_supply_tu, feed_tu) ==
    <<feed_tu[1], total_supply_tu * feed_tu[2]>>

\* total_supply_tu / feed_tu (line 39).
balance_ratio_of(total_supply_tu, feed_tu) ==
    <<total_supply_tu * feed_tu[2], feed_tu[1]>>

\* inventory_tu / feed_tu (line 41).
inventory_years_of(inventory_tu, feed_tu) ==
    <<inventory_tu * feed_tu[2], feed_tu[1]>>

\* build_sd_panel, lines 8-44.
build_sd_panel(a) ==
    LET feed == a.feed_demand
        inventory == ffill(inventory_column(feed, a.inventories))
        conv_ratio == balance_column(feed, a.conv_balance, "conv_balance_ratio")
        conv_spare == balance_column(feed, a.conv_balance, "conv_spare_tu")
        swu_ratio == balance_column(feed, a.enr_balance, "swu_balance_ratio")
        swu_spare == balance_column(feed, a.enr_balance, "swu_spare_swu")
        df == [i \in DOMAIN feed |->
                  LET year == feed[i].year
                      primary == ValueOf(fillna(merge_on_year(a.primary_supply,
                                                              "primary_supply_tu", year),
                                                Some(0)))
                      secondary == ValueOf(fillna(merge_on_year(a.secondary_supply,
                                                                "secondary_supply_tu", year),
                                                  Some(0)))
                      total == primary + secondary
                      inventory_tu == ValueOf(fillna(inventory[i], Some(0)))
                  IN  [year |-> year,
                       feed_tu |-> feed[i].feed_tu,
                       primary_supply_tu |-> primary,
                       secondary_supply_tu |-> secondary,
                       total_supply_tu |-> total,
                       balance_tu |-> balance_tu_of(total, feed[i].feed_tu),
                       balance_ratio |-> balance_ratio_of(total, feed[i].feed_tu),
                       inventory_tu |-> inventory_tu,
                       inventory_years |-> inventory_years_of(inventory_tu, feed[i].feed_tu),
                       conv_balance_ratio |-> conv_ratio[i],
                       conv_spare_tu |-> conv_spare[i],
                       swu_balance_ratio |-> swu_ratio[i],
                       swu_spare_swu |-> swu_spare[i]]]
    IN  [status |-> "ok", raised_at |-> 0, rows |-> sort_values(df)]

\* Input tables of build_sd_panel.
PanelFeedTables ==
    {[i \in DOMAIN ys |-> [year |-> ys[i], feed_tu |-> PanelFeedTu(ys[i])]] :
        ys \in DistinctSeqs(PanelYears, MaxPanelYear)}

PanelPrimaryTables ==
    {{[year |-> y, primary_supply_tu |-> PrimaryTu(y)] : y \in Y} : Y \in SUBSET PanelYears}

PanelSecondaryTables ==
    {{[year |-> y, secondary_supply_tu |-> SecondaryTu(y)] : y \in Y} : Y \in SUBSET PanelYears}

PanelInventoryTables ==
    {None} \cup
    {[rows |-> {[year |-> y, inventory_tu |-> InventoryTu(y)] : y \in Y}] :
        Y \in SUBSET PanelYears}

\* The capacity balances: both None, or both given with a row for the first
\* year.
PanelBalanceTables ==
    {[conv_balance |-> None, enr_balance |-> None],
     [conv_balance |-> [rows |-> {[year |-> 1, conv_balance_ratio |-> <<3, 2>>,
                                   conv_spare_tu |-> <<5, 1>>]}],
      enr_balance |-> [rows |-> {[year |-> 1, swu_balance_ratio |-> <<1, 2>>,
                                  swu_spare_swu |-> <<0 - 4, 1>>]}]]}

InitPanel ==
    /\ \E feed \in PanelFeedTables, primary \in PanelPrimaryTables,
          secondary \in PanelSecondaryTables, inventories \in PanelInventoryTables,
          balances \in PanelBalanceTables :
          panel_args = [feed_demand |-> feed,
                        primary_supply |-> primary,
                        secondary_supply |-> secondary,
                        inventories |-> inventories,
                        conv_balance |-> balances.conv_balance,
                        enr_balance |-> balances.enr_balance]
    /\ panel_ret = Pending
    /\ evolve_args = NoCall
    /\ evolve_ret = Pending
    /\ demand_args = NoCall
    /\ demand_ret = Pending
    /\ fuel_args = NoCall
    /\ fuel_ret = Pending
    /\ supply_args = NoCall
    /\ supply_ret = Pending
    /\ balance_args = NoCall
    /\ balance_ret = Pending
    /\ chain_args = NoCall
    /\ secondary_args = NoCall
    /\ secondary_ret = Pending

\* The arguments after a call of build_sd_panel: the assignments of lines 24
\* and 35-43 go into df, the copy of a selection of feed_demand (line 17) or
\* a frame a merge returned (lines 19-32).
build_sd_panel_inputs_after(a) ==
    LET df == DataFrame_copy(new_frame(a.feed_demand))
    IN  inputs_after(a, {setitem(df, build_sd_panel(a).rows)})

\* The call of build_sd_panel on the arguments held.
BuildSdPanel ==
    /\ panel_args # NoCall
    /\ panel_ret = Pending
    /\ panel_ret' = build_sd_panel(panel_args)
    /\ panel_args' = build_sd_panel_inputs_after(panel_args)
    /\ UNCHANGED <<evolve_args, evolve_ret, demand_args, demand_ret,
                   fuel_args, fuel_ret, supply_args, supply_ret,
                   balance_args, balance_ret, chain_args,
                   secondary_args, secondary_ret>>

NextPanel == BuildSdPanel

SpecPanel == InitPanel /\ [][NextPanel]_vars

----------------------------------------------------------------------------
(* Properties of build_sd_panel.                                           *)

\* The rows of the inventory series given to a call.
InventoryRowsOf(a) == IF a.inventories = None THEN {} ELSE a.inventories.rows

\* C12: for every row of the panel built by build_sd_panel,
\* primary_supply_tu and secondary_supply_tu are the values supplied for the
\* row's year (0 when the supply panel has no row for the year),
\* total_supply_tu is their sum, balance_tu = total_supply_tu - feed_tu and
\* balance_ratio = total_supply_tu / feed_tu (as a product with feed_tu; the
\* ratio has a zero denominator exactly when feed_tu is zero).
C12_PanelArithmetic ==
    panel_ret # Pending =>
        \A i \in DOMAIN panel_ret.rows :
            LET r == panel_ret.rows[i]
                feed == r.feed_tu
            IN  /\ \E j \in DOMAIN panel_args.feed_demand :
                       /\ panel_args.feed_demand[j].year = r.year
                       /\ panel_args.feed_demand[j].feed_tu = feed
                /\ r.primary_supply_tu
                       = YearTotal(panel_args.primary_supply, "primary_supply_tu", r.year)
                /\ r.secondary_supply_tu
                       = YearTotal(panel_args.secondary_supply, "secondary_supply_tu", r.year)
                /\ r.total_supply_tu = r.primary_supply_tu + r.secondary_supply_tu
                /\ r.balance_tu[2] # 0
                /\ r.balance_tu[1] * feed[2]
                       = (r.total_supply_tu * feed[2] - feed[1]) * r.balance_tu[2]
                /\ (r.balance_ratio[2] = 0) <=> (feed[1] = 0)
                /\ r.balance_ratio[1] * feed[1]
                       = r.total_supply_tu * feed[2] * r.balance_ratio[2]

\* Witness of C12: a panel of two years, one with primary and secondary
\* supply and a demand above it, one without any supply row.
C12_Witness ==
    /\ panel_ret # Pending
    /\ Len(panel_ret.rows) = 2
    /\ \E i, j \in DOMAIN panel_ret.rows :
          /\ panel_ret.rows[i].primary_supply_tu > 0
          /\ panel_ret.rows[i].secondary_supply_tu > 0
          /\ panel_ret.rows[i].balance_tu[1] < 0
          /\ panel_ret.rows[i].balance_ratio[1] > 0
          /\ panel_ret.rows[i].balance_ratio[2] > panel_ret.rows[i].balance_ratio[1]
          /\ panel_ret.rows[j].total_supply_tu = 0
          /\ panel_ret.rows[j].feed_tu[1] > 0

\* C20: in the panel built by build_sd_panel a year without a row in the
\* inventory series has the inventory_tu of the latest earlier year that has
\* one, whatever the row order of the feed-demand input.
C20_InventoryCarriedForward ==
    panel_ret # Pending =>
        \A i \in DOMAIN panel_ret.rows :
            LET y == panel_ret.rows[i].year
                earlier == {r \in InventoryRowsOf(panel_args) : r.year < y}
            IN  ((~\E r \in InventoryRowsOf(panel_args) : r.year = y) /\ earlier # {}) =>
                    panel_ret.rows[i].inventory_tu
                        = (CHOOSE r \in earlier : \A q \in earlier : q.year <= r.year).inventory_tu

----------------------------------------------------------------------------
(* Capacity balances: core/fuel_cycle_balances.py.                         *)
(*                                                                         *)
(* The capacity tables are sets of rows [year, <capacity column>]; baseline*)
(* and scenario capacities are taken from disjoint ranges, so that the     *)
(* union of the two tables is their concatenation.  The demand table is a  *)
(* sequence of rows [year, feed_tu, swu_demand_swu] keyed by year, its     *)
(* quantities fractions as compute_feed_and_swu_demand returns them.       *)

\* Bound of the capacity model: rows carry years 0..MaxBalanceYear.
MaxBalanceYear == 3

BalanceYears == 0..MaxBalanceYear
\* The requested range [start_year, end_year]: years lie before, inside and
\* after it.
BalanceStart == 1
BalanceEnd == MaxBalanceYear - 1

\* Capacities of the rows: baseline rows carry 40 + year or one more (two
\* rows of one year differ), scenario rows 80 + year.
BaselineCapacity(y) == 40 + y
ScenarioCapacity(y) == 80 + y

\* Demand of a year: zero in year 1, a fraction in the others.
DemandOf(y) == IF y = 1 THEN <<0, 1>> ELSE <<45 * y, 2>>

\* Variant of concat_capacity in which a scenario row replaces the baseline
\* rows of its year.
concat_capacity_override(cap, scen) ==
    {r \in cap : ~\E q \in scen : q.year = r.year} \cup scen

\* pd.concat([cap, scen], ignore_index=True, sort=False), line 14.
concat_capacity(cap, scen) == cap \cup scen

\* cap.groupby("year").sum(numeric_only=True).reset_index(), line 15: one row
\* per year of cap, every other column summed.
groupby_year_sum(cap) ==
    {[c \in DOMAIN r |->
         IF c = "year" THEN r.year
         ELSE LET rows == {q \in cap : q.year = r.year}
              IN  SumOver(rows, [q \in rows |-> q[c]])] : r \in cap}

\* _apply_capacity_scenarios, lines 8-16.
_apply_capacity_scenarios(base, scenarios, start_year, end_year) ==
    LET cap == in_range(base, start_year, end_year)
        scen == IF scenarios # None /\ scenarios.rows # {}
                THEN in_range(scenarios.rows, start_year, end_year)
                ELSE {}
    IN  groupby_year_sum(IF scen # {} THEN concat_capacity(cap, scen) ELSE cap)

\* The rows of a demand table in the requested range (lines 28, 48), in
\* their order.
demand_in_range(demand, start_year, end_year) ==
    SelectSeq(demand, LAMBDA r : r.year >= start_year /\ r.year <= end_year)

\* capacity / demand and capacity - demand (lines 34-35, 54-55) for a demand
\* given as a fraction.
capacity_ratio(capacity, demand) == <<capacity * demand[2], demand[1]>>
capacity_spare(capacity, demand) == <<capacity * demand[2] - demand[1], demand[2]>>

\* compute_conversion_balance, lines 19-36.
compute_conversion_balance(a) ==
    LET cap == _apply_capacity_scenarios(a.conversion_capacity, a.conv_scenarios,
                                         a.start_year, a.end_year)
        feed == demand_in_range(a.feed_demand, a.start_year, a.end_year)
    IN  [status |-> "ok", raised_at |-> 0,
         rows |-> [i \in DOMAIN feed |->
                     LET capacity == ValueOf(fillna(merge_on_year(cap, "conv_capacity_tu",
                                                                  feed[i].year),
                                                    Some(0)))
                     IN  [year |-> feed[i].year,
                          uf6_demand_tu |-> feed[i].feed_tu,
                          conv_capacity_tu |-> capacity,
                          conv_balance_ratio |-> capacity_ratio(capacity, feed[i].feed_tu),
                          conv_spare_tu |-> capacity_spare(capacity, feed[i].feed_tu)]]]

\* compute_enrichment_balance, lines 39-56.
compute_enrichment_balance(a) ==
    LET cap == _apply_capacity_scenarios(a.enrichment_capacity, a.enr_scenarios,
                                         a.start_year, a.end_year)
        demand == demand_in_range(a.swu_demand, a.start_year, a.end_year)
    IN  [status |-> "ok", raised_at |-> 0,
         rows |-> [i \in DOMAIN demand |->
                     LET capacity == ValueOf(fillna(merge_on_year(cap, "swu_capacity_swu",
                                                                  demand[i].year),
                                                    Some(0)))
                     IN  [year |-> demand[i].year,
                          swu_demand_swu |-> demand[i].swu_demand_swu,
                          swu_capacity_swu |-> capacity,
                          swu_balance_ratio |-> capacity_ratio(capacity, demand[i].swu_demand_swu),
                          swu_spare_swu |-> capacity_spare(capacity, demand[i].swu_demand_swu)]]]

\* The demand table: at most two rows, of distinct years, in any order.
DemandTables ==
    {[i \in DOMAIN ys |-> [year |-> ys[i], feed_tu |-> DemandOf(ys[i]),
                           swu_demand_swu |-> DemandOf(ys[i])]] :
        ys \in DistinctSeqs(BalanceYears, 2)}

\* Baseline capacity: at most two rows (the two may share a year); scenario
\* capacity: None, or at most two rows.
ConversionCapacityTables ==
    AtMostTwo({[year |-> y, conv_capacity_tu |-> BaselineCapacity(y) + d] :
                  y \in BalanceYears, d \in {0, 1}})

ConversionScenarioTables ==
    {None} \cup
    {[rows |-> t] :
        t \in AtMostTwo({[year |-> y, conv_capacity_tu |-> ScenarioCapacity(y)] : y \in BalanceYears})}

EnrichmentCapacityTables ==
    AtMostTwo({[year |-> y, swu_capacity_swu |-> BaselineCapacity(y) + d] :
                  y \in BalanceYears, d \in {0, 1}})

EnrichmentScenarioTables ==
    {None} \cup
    {[rows |-> t] :
        t \in AtMostTwo({[year |-> y, swu_capacity_swu |-> ScenarioCapacity(y)] : y \in BalanceYears})}

InitBalance ==
    /\ \/ balance_args \in [fn : {"compute_conversion_balance"},
                            feed_demand : DemandTables,
                            conversion_capacity : ConversionCapacityTables,
                            conv_scenarios : ConversionScenarioTables,
                            start_year : {BalanceStart},
                            end_year : {BalanceEnd}]
       \/ balance_args \in [fn : {"compute_enrichment_balance"},
                            swu_demand : DemandTables,
                            enrichment_capacity : EnrichmentCapacityTables,
                            enr_scenarios : EnrichmentScenarioTables,
                            start_year : {BalanceStart},
                            end_year : {BalanceEnd}]
    /\ balance_ret = Pending
    /\ evolve_args = NoCall
    /\ evolve_ret = Pending
    /\ demand_args = NoCall
    /\ demand_ret = Pending
    /\ fuel_args = NoCall
    /\ fuel_ret = Pending
    /\ supply_args = NoCall
    /\ supply_ret = Pending
    /\ panel_args = NoCall
    /\ panel_ret = Pending
    /\ chain_args = NoCall
    /\ secondary_args = NoCall
    /\ secondary_ret = Pending

\* The arguments after a call of a capacity balance: the assignments of
\* lines 33-35 and 53-55 go into df, the frame the merge returned (lines 30
\* and 50); cap is a copy of the capacity table (line 9).
capacity_balance_inputs_after(a, rows) ==
    LET df == new_frame(rows)
    IN  inputs_after(a, {setitem(df, rows)})

\* A call of compute_conversion_balance on the arguments held.
ComputeConversionBalance ==
    /\ balance_args # NoCall
    /\ balance_args.fn = "compute_conversion_balance"
    /\ balance_ret = Pending
    /\ balance_ret' = compute_conversion_balance(balance_args)
    /\ balance_args' = capacity_balance_inputs_after(
                         balance_args, compute_conversion_balance(balance_args).rows)
    /\ UNCHANGED <<evolve_args, evolve_ret, demand_args, demand_ret,
                   fuel_args, fuel_ret, supply_args, supply_ret,
                   panel_args, panel_ret, chain_args,
                   secondary_args, secondary_ret>>

\* A call of compute_enrichment_balance on the arguments held.
ComputeEnrichmentBalance ==
    /\ balance_args # NoCall
    /\ balance_args.fn = "compute_enrichment_balance"
    /\ balance_ret = Pending
    /\ balance_ret' = compute_enrichment_balance(balance_args)
    /\ balance_args' = capacity_balance_inputs_after(
                         balance_args, compute_enrichment_balance(balance_args).rows)
    /\ UNCHANGED <<evolve_args, evolve_ret, demand_args, demand_ret,
                   fuel_args, fuel_ret, supply_args, supply_ret,
                   panel_args, panel_ret, chain_args,
                   secondary_args, secondary_ret>>

NextBalance == ComputeConversionBalance \/ ComputeEnrichmentBalance

SpecBalance == InitBalance /\ [][NextBalance]_vars

----------------------------------------------------------------------------
(* Properties of the capacity balances.                                    *)

\* A call read without regard to the commodity: its demand table, its
\* baseline and scenario capacity rows and its capacity column.
IsConversion(a) == a.fn = "compute_conversion_balance"
BalanceDemandOf(a) == IF IsConversion(a) THEN a.feed_demand ELSE a.swu_demand
BalanceDemandColumn(a) == IF IsConversion(a) THEN "feed_tu" ELSE "swu_demand_swu"
CapacityColumn(a) == IF IsConversion(a) THEN "conv_capacity_tu" ELSE "swu_capacity_swu"
BaselineRowsOf(a) == IF IsConversion(a) THEN a.conversion_capacity ELSE a.enrichment_capacity
ScenarioRowsOf(a) ==
    LET scenarios == IF IsConversion(a) THEN a.conv_scenarios ELSE a.enr_scenarios
    IN  IF scenarios = None THEN {} ELSE scenarios.rows

\* A row of the result read the same way: [year, demand, capacity, ratio, spare].
BalanceRow(a, r) ==
    IF IsConversion(a)
    THEN [year |-> r.year, demand |-> r.uf6_demand_tu, capacity |-> r.conv_capacity_tu,
          ratio |-> r.conv_balance_ratio, spare |-> r.conv_spare_tu]
    ELSE [year |-> r.year, demand |-> r.swu_demand_swu, capacity |-> r.swu_capacity_swu,
          ratio |-> r.swu_balance_ratio, spare |-> r.swu_spare_swu]

\* C18: compute_conversion_balance and compute_enrichment_balance return
\* exactly one row per demand year within [start_year, end_year]; its
\* capacity is the sum of all baseline and all scenario capacity rows of the
\* year (0 when there is none), its balance ratio is capacity / demand (as a
\* product with the demand; a zero denominator exactly when the demand is
\* zero) and its spare is capacity - demand.
C18_CapacityBalance ==
    balance_ret # Pending =>
        LET a == balance_args
            demand == BalanceDemandOf(a)
            years == {demand[i].year : i \in DOMAIN demand}
                         \cap (a.start_year..a.end_year)
        IN  /\ balance_ret.status = "ok"
            /\ \A y \in years :
                   Cardinality({i \in DOMAIN balance_ret.rows : balance_ret.rows[i].year = y}) = 1
            /\ \A i \in DOMAIN balance_ret.rows :
                   LET r == BalanceRow(a, balance_ret.rows[i])
                   IN  /\ r.year \in years
                       /\ \E j \in DOMAIN demand :
                              /\ demand[j].year = r.year
                              /\ demand[j][BalanceDemandColumn(a)] = r.demand
                       /\ r.capacity
                              = YearTotal(BaselineRowsOf(a), CapacityColumn(a), r.year)
                                + YearTotal(ScenarioRowsOf(a), CapacityColumn(a), r.year)
                       /\ (r.ratio[2] = 0) <=> (r.demand[1] = 0)
                       /\ r.ratio[1] * r.demand[1] = r.capacity * r.demand[2] * r.ratio[2]
                       /\ r.spare[2] # 0
                       /\ r.spare[1] * r.demand[2]
                              = (r.capacity * r.demand[2] - r.demand[1]) * r.spare[2]

\* Witness of C18: a conversion balance of two years of the range, one with
\* two baseline rows and a scenario row, the other without any capacity row.
C18_Witness ==
    /\ balance_ret # Pending
    /\ IsConversion(balance_args)
    /\ Len(balance_ret.rows) = 2
    /\ Cardinality({r \in balance_args.conversion_capacity : r.year = BalanceEnd}) = 2
    /\ \E q \in ScenarioRowsOf(balance_args) : q.year = BalanceEnd
    /\ \E i, j \in DOMAIN balance_ret.rows :
          /\ balance_ret.rows[i].year = BalanceEnd
          /\ balance_ret.rows[i].conv_capacity_tu
                 = 2 * BaselineCapacity(BalanceEnd) + 1 + ScenarioCapacity(BalanceEnd)
          /\ balance_ret.rows[j].year = BalanceStart
          /\ balance_ret.rows[j].conv_capacity_tu = 0

----------------------------------------------------------------------------
(* Feed and SWU demand by year: core/fuel_cycle.py,                        *)
(* compute_feed_and_swu_demand.                                            *)
(*                                                                         *)
(* reactor_demand is a sequence of rows [reactor_id, year, total_tu,       *)
(* product_assay, tails_assay], tails_assay a cell; a price series is None *)
(* or a table keyed by year whose price is a cell.                         *)

\* Bound of the feed-demand model: reactor-demand rows carry years 1..MaxFeedYear.
MaxFeedYear == 2

FeedYears == 1..MaxFeedYear

\* The two reactors of the reactor-demand input: product tonnage, product
\* assay and tails assay of their rows.
DemandReactors == <<"R1", "N1">>
TotalTuOf(rid) == IF rid = "R1" THEN 2 ELSE 3
ProductAssayOf(rid) == IF rid = "R1" THEN 4500 ELSE 900
TailsAssayOf(rid) == IF rid = "R1" THEN 200 ELSE 300

\* The reactor-demand tables: every (reactor, year) has no row or a row with
\* the reactor's tails assay, or, for the first reactor, a row without tails
\* assay; rows come reactor by reactor.
ReactorDemandTables ==
    LET slots == {<<rid, y>> : rid \in {DemandReactors[i] : i \in DOMAIN DemandReactors},
                               y \in FeedYears}
        Row(slot, tails) == [reactor_id |-> slot[1], year |-> slot[2],
                             total_tu |-> TotalTuOf(slot[1]),
                             product_assay |-> ProductAssayOf(slot[1]),
                             tails_assay |-> tails]
        RowsOfReactor(f, rid) ==
            LET present == {y \in FeedYears : f[<<rid, y>>] # "no row"}
                nth(k) == CHOOSE y \in present : Cardinality({z \in present : z < y}) = k - 1
            IN  [k \in 1..Cardinality(present) |->
                    Row(<<rid, nth(k)>>,
                        IF f[<<rid, nth(k)>>] = "nan" THEN NaN ELSE Some(TailsAssayOf(rid)))]
    IN  {RowsOfReactor(f, DemandReactors[1]) \o RowsOfReactor(f, DemandReactors[2]) :
            f \in {g \in [slots -> {"no row", "nan", "value"}] :
                      \A y \in FeedYears : g[<<DemandReactors[2], y>>] # "nan"}}

\* The uranium price series: None, or a table in which every year has no
\* row, a NaN price or the price 2.
UraniumPriceSeries ==
    {None} \cup
    {[rows |-> {[year |-> y, price |-> IF f[y] = "nan" THEN NaN ELSE Some(2)] :
                   y \in {z \in FeedYears : f[z] # "no row"}}] :
        f \in [FeedYears -> {"no row", "nan", "value"}]}

\* The SWU price series: None, the price 1 in every year, or in the first
\* year only.
SwuPriceSeries ==
    {None,
     [rows |-> {[year |-> y, price |-> Some(1)] : y \in FeedYears}],
     [rows |-> {[year |-> 1, price |-> Some(1)]}]}

TailsPolicies == {"optimize", "fixed"}
DefaultTails == {DEFAULT_TAILS_ASSAY, 275}

InitFeedDemand ==
    /\ fuel_args \in [fn : {"compute_feed_and_swu_demand"},
                      reactor_demand : ReactorDemandTables,
                      u_price_series : UraniumPriceSeries,
                      swu_price_series : SwuPriceSeries,
                      tails_policy : TailsPolicies,
                      default_tails : DefaultTails,
                      feed_assay : {NATURAL_U235_ASSAY}]
    /\ fuel_ret = Pending
    /\ evolve_args = NoCall
    /\ evolve_ret = Pending
    /\ demand_args = NoCall
    /\ demand_ret = Pending
    /\ supply_args = NoCall
    /\ supply_ret = Pending
    /\ balance_args = NoCall
    /\ balance_ret = Pending
    /\ panel_args = NoCall
    /\ panel_ret = Pending
    /\ chain_args = NoCall
    /\ secondary_args = NoCall
    /\ secondary_ret = Pending

\* The arguments after a call of compute_feed_and_swu_demand: lines 76-122
\* assign into no frame (yearly is what groupby(...).agg(...) returned).
compute_feed_and_swu_demand_inputs_after(a) == inputs_after(a, {})

\* The call of compute_feed_and_swu_demand on the arguments held.
ComputeFeedAndSwuDemand ==
    /\ fuel_args # NoCall
    /\ fuel_args.fn = "compute_feed_and_swu_demand"
    /\ fuel_ret = Pending
    /\ fuel_ret' = compute_feed_and_swu_demand(fuel_args)
    /\ fuel_args' = compute_feed_and_swu_demand_inputs_after(fuel_args)
    /\ UNCHANGED <<evolve_args, evolve_ret, demand_args, demand_ret,
                   supply_args, supply_ret, balance_args, balance_ret,
                   panel_args, panel_ret, chain_args,
                   secondary_args, secondary_ret>>

NextFeedDemand == ComputeFeedAndSwuDemand

SpecFeedDemand == InitFeedDemand /\ [][NextFeedDemand]_vars

----------------------------------------------------------------------------
(* Properties of compute_feed_and_swu_demand.                              *)

\* A price series has a value for the year.
HasPrice(price_series, year) ==
    /\ price_series # None
    /\ \E r \in price_series.rows : r.year = year /\ r.price # NaN

\* The positions of the input rows of a year, and those with a tails assay.
RowsOfYear(a, year) == {i \in DOMAIN a.reactor_demand : a.reactor_demand[i].year = year}
RowsWithTails(a, year) == {i \in RowsOfYear(a, year) : a.reactor_demand[i].tails_assay # NaN}

\* C16: compute_feed_and_swu_demand emits one row per distinct year of the
\* reactor-demand input.  The year's tails assay is the grid-search optimum
\* when tails_policy is "optimize" and both price series have a value for
\* the year; otherwise the mean of the tails assays of the year's rows, or
\* default_tails when no row of the year has one.  That value is recorded as
\* tails_assay_used, and feed_tu and swu_demand_swu are those of the year's
\* summed product tonnage at that tails assay.
C16_TailsResolution ==
    (fuel_args # NoCall /\ fuel_args.fn = "compute_feed_and_swu_demand" /\ fuel_ret # Pending) =>
        LET a == fuel_args
            years == {a.reactor_demand[i].year : i \in DOMAIN a.reactor_demand}
        IN  /\ fuel_ret.status = "ok"
            /\ {fuel_ret.rows[k].year : k \in DOMAIN fuel_ret.rows} = years
            /\ Len(fuel_ret.rows) = Cardinality(years)
            /\ \A k \in DOMAIN fuel_ret.rows :
                   LET r == fuel_ret.rows[k]
                       at == RowsOfYear(a, r.year)
                       with_tails == RowsWithTails(a, r.year)
                       product == SumOver(at, [i \in at |-> a.reactor_demand[i].total_tu])
                       assay == SumOver(at, [i \in at |-> a.reactor_demand[i].product_assay])
                                    \div Cardinality(at)
                       expected ==
                           IF /\ a.tails_policy = "optimize"
                              /\ HasPrice(a.u_price_series, r.year)
                              /\ HasPrice(a.swu_price_series, r.year)
                           THEN optimize_tails_assay(
                                    [u_price_usd_per_lb |-> Price(2),
                                     swu_price_usd_per_swu |-> Price(1),
                                     product_assay |-> assay,
                                     feed_assay |-> a.feed_assay,
                                     bounds |-> <<100, 300>>,
                                     grid_points |-> 40]).tails
                           ELSE IF with_tails # {}
                                THEN SumOver(with_tails,
                                             [i \in with_tails |->
                                                 ValueOf(a.reactor_demand[i].tails_assay)])
                                         \div Cardinality(with_tails)
                                ELSE a.default_tails
                   IN  /\ r.tails_assay_used = expected
                       /\ r.product_tu = product
                       /\ r.feed_tu[2] # 0
                       /\ r.feed_tu[1] * (a.feed_assay - expected)
                              = product * (assay - expected) * r.feed_tu[2]
                       /\ r.swu_demand_swu
                              = feed_and_swu_for_product(
                                    product, [feed_assay |-> a.feed_assay,
                                              product_assay |-> assay,
                                              tails_assay |-> expected]).swu

\* Witness of C16: with the policy "optimize", one year has both prices and
\* the grid-search optimum (neither the mean nor the default), the other has
\* no uranium price and the mean of two rows' tails assays.
C16_Witness ==
    /\ fuel_args # NoCall
    /\ fuel_args.fn = "compute_feed_and_swu_demand"
    /\ fuel_ret # Pending
    /\ fuel_args.tails_policy = "optimize"
    /\ Len(fuel_ret.rows) = 2
    /\ HasPrice(fuel_args.u_price_series, 1)
    /\ HasPrice(fuel_args.swu_price_series, 1)
    /\ ~HasPrice(fuel_args.u_price_series, 2)
    /\ fuel_ret.rows[1].tails_assay_used = 156
    /\ Cardinality(RowsWithTails(fuel_args, 2)) = 2
    /\ fuel_ret.rows[2].tails_assay_used = 250
    /\ fuel_args.default_tails = 275

----------------------------------------------------------------------------
(* The chain compute_reactor_demand -> compute_feed_and_swu_demand ->      *)
(* build_sd_panel: the rows one function returns are the reactor_demand,   *)
(* then the feed_demand argument of the next.  An exception ends the run.  *)

\* The years of the requested horizon.
HorizonYears == HorizonStart..HorizonEnd

\* What a run is given besides the arguments of compute_reactor_demand: no
\* prices, supply or inventory at all with the fixed tails policy, or the
\* optimising policy with both prices for the first year of the horizon,
\* supply for the first year and an inventory row for the first year.
ChainInputs ==
    {[u_price_series |-> None,
      swu_price_series |-> None,
      tails_policy |-> "fixed",
      default_tails |-> DEFAULT_TAILS_ASSAY,
      feed_assay |-> NATURAL_U235_ASSAY,
      primary_supply |-> {},
      secondary_supply |-> {},
      inventories |-> None,
      conv_balance |-> None,
      enr_balance |-> None],
     [u_price_series |-> [rows |-> {[year |-> y, price |-> Some(2)] : y \in HorizonYears}],
      swu_price_series |-> [rows |-> {[year |-> HorizonStart, price |-> Some(1)]}],
      tails_policy |-> "optimize",
      default_tails |-> DEFAULT_TAILS_ASSAY,
      feed_assay |-> NATURAL_U235_ASSAY,
      primary_supply |-> {[year |-> HorizonStart,
                           primary_supply_tu |-> PrimaryTu(HorizonStart)]},
      secondary_supply |-> {[year |-> HorizonStart,
                             secondary_supply_tu |-> SecondaryTu(HorizonStart)]},
      inventories |-> [rows |-> {[year |-> HorizonStart,
                                  inventory_tu |-> InventoryTu(HorizonStart)]}],
      conv_balance |-> None,
      enr_balance |-> None]}

\* The newbuild tables of a run: those with every required column.
ChainNewbuildTables ==
    {t \in NewbuildTables : t = None \/ required \subseteq t.columns}

InitChain ==
    /\ chain_args \in ChainInputs
    /\ demand_args \in [reactor_master : ReactorMasterTables,
                        reactor_fuel_params : FuelParamTables,
                        reactor_life_scenarios : LifeScenarioTables,
                        newbuild_projects : ChainNewbuildTables,
                        start_year : {HorizonStart},
                        end_year : {HorizonEnd},
                        scenario_name : {"base"}]
    /\ demand_ret = Pending
    /\ fuel_args = NoCall
    /\ fuel_ret = Pending
    /\ panel_args = NoCall
    /\ panel_ret = Pending
    /\ evolve_args = NoCall
    /\ evolve_ret = Pending
    /\ supply_args = NoCall
    /\ supply_ret = Pending
    /\ balance_args = NoCall
    /\ balance_ret = Pending
    /\ secondary_args = NoCall
    /\ secondary_ret = Pending

\* The second call of the chain: compute_feed_and_swu_demand on the rows
\* compute_reactor_demand returned.
ChainFeedAndSwuDemand ==
    /\ chain_args # NoCall
    /\ demand_ret # Pending
    /\ demand_ret.status = "ok"
    /\ fuel_args = NoCall
    /\ fuel_args' = [fn |-> "compute_feed_and_swu_demand",
                     reactor_demand |-> demand_ret.rows,
                     u_price_series |-> chain_args.u_price_series,
                     swu_price_series |-> chain_args.swu_price_series,
                     tails_policy |-> chain_args.tails_policy,
                     default_tails |-> chain_args.default_tails,
                     feed_assay |-> chain_args.feed_assay]
    /\ fuel_ret' = compute_feed_and_swu_demand(fuel_args')
    /\ UNCHANGED <<chain_args, demand_args, demand_ret, panel_args, panel_ret,
                   evolve_args, evolve_ret, supply_args, supply_ret,
                   balance_args, balance_ret,
                   secondary_args, secondary_ret>>

\* The third call of the chain: build_sd_panel on the rows
\* compute_feed_and_swu_demand returned.
ChainBuildSdPanel ==
    /\ chain_args # NoCall
    /\ fuel_ret # Pending
    /\ fuel_ret.status = "ok"
    /\ panel_args = NoCall
    /\ panel_args' = [feed_demand |-> fuel_ret.rows,
                      primary_supply |-> chain_args.primary_supply,
                      secondary_supply |-> chain_args.secondary_supply,
                      inventories |-> chain_args.inventories,
                      conv_balance |-> chain_args.conv_balance,
                      enr_balance |-> chain_args.enr_balance]
    /\ panel_ret' = build_sd_panel(panel_args')
    /\ UNCHANGED <<chain_args, demand_args, demand_ret, fuel_args, fuel_ret,
                   evolve_args, evolve_ret, supply_args, supply_ret,
                   balance_args, balance_ret,
                   secondary_args, secondary_ret>>

NextChain ==
    \/ ComputeReactorDemand
    \/ ChainFeedAndSwuDemand
    \/ ChainBuildSdPanel

SpecChain == InitChain /\ [][NextChain]_vars

----------------------------------------------------------------------------
(* Properties of the chain.                                                *)

\* The years of the rows of a table given as a sequence, in row order.
YearColumn(rows) == [k \in DOMAIN rows |-> rows[k].year]

\* C13: the panel a run of the chain for the horizon [start_year, end_year]
\* ends with has exactly one row for every year of the horizon, in ascending
\* order of year.
C13_PanelCoversHorizon ==
    (chain_args # NoCall /\ panel_ret # Pending) =>
        /\ panel_ret.status = "ok"
        /\ YearColumn(panel_ret.rows)
               = [k \in 1..(demand_args.end_year - demand_args.start_year + 1) |->
                     demand_args.start_year + k - 1]

----------------------------------------------------------------------------
(* evolve_inventories and build_sd_panel on the same feed-demand,          *)
(* primary-supply and secondary-supply panels (each with at most one row   *)
(* per year).  The feed-demand panel is a sequence of rows with whole      *)
(* tonnages; evolve_inventories, which indexes it by year, is given its    *)
(* set of rows, build_sd_panel the sequence with feed_tu as a fraction.    *)

\* Bound of this model: the rows of the shared panels carry years
\* 1..MaxSharedYear; the seed series carries the years 0 and 1.
MaxSharedYear == 3

SharedYears == 1..MaxSharedYear

\* The feed-demand panel, in any row order.
SharedFeedTables ==
    {[i \in DOMAIN ys |-> [year |-> ys[i], feed_tu |-> FeedTu(ys[i])]] :
        ys \in DistinctSeqs(SharedYears, MaxSharedYear)}

SharedPrimaryTables ==
    {{[year |-> y, primary_supply_tu |-> PrimaryTu(y)] : y \in Y} : Y \in SUBSET SharedYears}

\* Secondary supply: no row, a row for the first year, or one for every year.
SharedSecondaryTables ==
    {{[year |-> y, secondary_supply_tu |-> SecondaryTu(y)] : y \in Y} :
        Y \in {{}, {1}, SharedYears}}

\* The seed series: one row, or the rows of years 0 and 1 in either order.
SharedSeedTables ==
    {[i \in DOMAIN ys |-> [year |-> ys[i], inventory_tu |-> InventoryTu(ys[i])]] :
        ys \in {<<0>>, <<1>>, <<0, 1>>, <<1, 0>>}}

\* Inventory scenarios: None, rows with the column inventory_change_tu for
\* any set of years, or rows for every year without the column.
SharedScenarioTables ==
    {None} \cup
    {[rows |-> {[year |-> y, inventory_change_tu |-> InventoryChangeTu(y)] : y \in Y},
      has_inventory_change_tu |-> TRUE] : Y \in SUBSET SharedYears} \cup
    {[rows |-> {[year |-> y, inventory_change_tu |-> InventoryChangeTu(y)] : y \in SharedYears},
      has_inventory_change_tu |-> FALSE]}

\* feed_demand_year as evolve_inventories indexes it (line 60): the rows by
\* year.
feed_demand_year_of(feed) == {feed[i] : i \in DOMAIN feed}

\* feed_demand as build_sd_panel takes it: the rows in order, feed_tu as a
\* fraction.
feed_demand_of(feed) ==
    [i \in DOMAIN feed |-> [year |-> feed[i].year, feed_tu |-> <<feed[i].feed_tu, 1>>]]

InitShared ==
    /\ \E feed \in SharedFeedTables, primary \in SharedPrimaryTables,
          secondary \in SharedSecondaryTables, seed \in SharedSeedTables,
          scenarios \in SharedScenarioTables :
          /\ evolve_args = [initial_inventories |-> seed,
                            primary_supply_year |-> primary,
                            secondary_supply_year |-> secondary,
                            feed_demand_year |-> feed_demand_year_of(feed),
                            inventory_scenarios |-> scenarios]
          /\ panel_args = [feed_demand |-> feed_demand_of(feed),
                           primary_supply |-> primary,
                           secondary_supply |-> secondary,
                           inventories |-> None,
                           conv_balance |-> None,
                           enr_balance |-> None]
    /\ evolve_ret = Pending
    /\ panel_ret = Pending
    /\ demand_args = NoCall
    /\ demand_ret = Pending
    /\ fuel_args = NoCall
    /\ fuel_ret = Pending
    /\ supply_args = NoCall
    /\ supply_ret = Pending
    /\ balance_args = NoCall
    /\ balance_ret = Pending
    /\ chain_args = NoCall
    /\ secondary_args = NoCall
    /\ secondary_ret = Pending

NextShared ==
    \/ EvolveInventories
    \/ BuildSdPanel

SpecShared == InitShared /\ [][NextShared]_vars

----------------------------------------------------------------------------
(* Properties of evolve_inventories and build_sd_panel taken together.     *)

\* The seed year of a call of evolve_inventories and the stock of that year.
SeedYearOf(a) == MaxOf({a.initial_inventories[i].year : i \in DOMAIN a.initial_inventories})
SeedStockOf(a) ==
    a.initial_inventories[CHOOSE i \in DOMAIN a.initial_inventories :
                              a.initial_inventories[i].year = SeedYearOf(a)].inventory_tu

\* inventory(t): the seed stock in the seed year, the stock of the row of
\* year t of the evolved series after it (a set: empty when there is none).
InventoryAt(t) ==
    IF t = SeedYearOf(evolve_args) THEN {SeedStockOf(evolve_args)}
    ELSE {evolve_ret.rows[i].inventory_tu :
             i \in {k \in DOMAIN evolve_ret.rows : evolve_ret.rows[k].year = t}}

\* The years after the seed year that have a feed-demand row.
FedYearsAfterSeed ==
    {panel_args.feed_demand[i].year :
        i \in {k \in DOMAIN panel_args.feed_demand :
                  panel_args.feed_demand[k].year > SeedYearOf(evolve_args)}}

\* C22: evolve_inventories and build_sd_panel having been called on the same
\* feed-demand, primary-supply and secondary-supply panels, every year t
\* after the seed year that has a feed-demand row has one inventory row and
\* one panel row, and inventory(t) - inventory(t-1) = balance_tu(t) +
\* policyFlow(t), inventory(seed year) being the seed stock.
C22_InventoryFollowsBalance ==
    (evolve_args # NoCall /\ panel_args # NoCall /\ evolve_ret # Pending /\ panel_ret # Pending) =>
        \A t \in FedYearsAfterSeed :
            LET at == {k \in DOMAIN panel_ret.rows : panel_ret.rows[k].year = t}
            IN  /\ evolve_ret.status = "ok"
                /\ panel_ret.status = "ok"
                /\ Cardinality(at) = 1
                /\ Cardinality(InventoryAt(t)) = 1
                /\ Cardinality(InventoryAt(t - 1)) = 1
                /\ \A k \in at :
                       LET balance_tu == panel_ret.rows[k].balance_tu
                       IN  /\ balance_tu[2] # 0
                           /\ (ValueOf(InventoryAt(t)) - ValueOf(InventoryAt(t - 1))
                                 - PolicyFlowOf(evolve_args.inventory_scenarios, t))
                                  * balance_tu[2] = balance_tu[1]

\* Witness of C22: both calls are done; the feed-demand panel, given latest
\* year first, has rows for the last year and for the year after the seed
\* year but none for the year between them; the last year has primary
\* supply, no secondary supply and a policy flow.
C22_Witness ==
    /\ evolve_args # NoCall
    /\ panel_args # NoCall
    /\ evolve_ret # Pending
    /\ panel_ret # Pending
    /\ SeedYearOf(evolve_args) = 0
    /\ FedYearsAfterSeed = {1, MaxSharedYear}
    /\ panel_args.feed_demand[1].year = MaxSharedYear
    /\ \E r \in evolve_args.primary_supply_year : r.year = MaxSharedYear
    /\ evolve_args.secondary_supply_year # {}
    /\ ~\E r \in evolve_args.secondary_supply_year : r.year = MaxSharedYear
    /\ PolicyFlowOf(evolve_args.inventory_scenarios, MaxSharedYear) # 0
    /\ Len(evolve_ret.rows) = MaxSharedYear

----------------------------------------------------------------------------
(* The core stages, each called on arguments of its own.                   *)

\* The arguments of one stage, those of the other stages being absent.  For
\* the stages with the largest argument sets a part of them is taken: the
\* supply panels of evolve_inventories and build_sd_panel have at most one
\* row, the production table of build_primary_supply at most one row, and
\* compute_feed_and_swu_demand is given a SWU price series.
InitStages ==
    \/ /\ InitInventory
       /\ Cardinality(evolve_args.primary_supply_year) <= 1
       /\ evolve_args.secondary_supply_year = {}
    \/ InitSecondarySupply
    \/ InitDemand
    \/ /\ InitFeedDemand
       /\ fuel_args.swu_price_series # None
       /\ fuel_args.default_tails = DEFAULT_TAILS_ASSAY
    \/ InitBalance
    \/ /\ InitPrimarySupply
       /\ Cardinality(supply_args.mine_production) <= 1
    \/ /\ InitPanel
       /\ Cardinality(panel_args.primary_supply) <= 1
       /\ panel_args.secondary_supply = {}

NextStages ==
    \/ EvolveInventories
    \/ BuildSecondarySupply
    \/ ComputeReactorDemand
    \/ ComputeFeedAndSwuDemand
    \/ ComputeConversionBalance
    \/ ComputeEnrichmentBalance
    \/ BuildPrimarySupply
    \/ BuildSdPanel

SpecStages == InitStages /\ [][NextStages]_vars

----------------------------------------------------------------------------
(* Properties of the core stages taken together.                           *)

\* The outcome of the capacity balance a call names.
capacity_balance_of(a) ==
    IF a.fn = "compute_conversion_balance" THEN compute_conversion_balance(a)
    ELSE compute_enrichment_balance(a)

\* C21: no step of a core stage changes the tables passed to it: the
\* arguments of the stage hold after the step what they held before it
\* (rows, columns and values), and the stage run again on them gives the
\* output the step gave.
C21_StagesLeaveInputsUnchanged ==
    [][/\ evolve_args # NoCall =>
              /\ evolve_args' = evolve_args
              /\ evolve_ret' # Pending => evolve_ret' = evolve_inventories(evolve_args')
       /\ secondary_args # NoCall =>
              /\ secondary_args' = secondary_args
              /\ secondary_ret' # Pending =>
                     secondary_ret' = build_secondary_supply(secondary_args')
       /\ demand_args # NoCall =>
              /\ demand_args' = demand_args
              /\ demand_ret' # Pending => demand_ret' = compute_reactor_demand(demand_args')
       /\ fuel_args # NoCall =>
              /\ fuel_args' = fuel_args
              /\ fuel_ret' # Pending => fuel_ret' = compute_feed_and_swu_demand(fuel_args')
       /\ balance_args # NoCall =>
              /\ balance_args' = balance_args
              /\ balance_ret' # Pending => balance_ret' = capacity_balance_of(balance_args')
       /\ supply_args # NoCall =>
              /\ supply_args' = supply_args
              /\ supply_ret' # Pending => supply_ret' = build_primary_supply(supply_args')
       /\ panel_args # NoCall =>
              /\ panel_args' = panel_args
              /\ panel_ret' # Pending => panel_ret' = build_sd_panel(panel_args')]_vars

\* Witness of C21: compute_reactor_demand has completed on a reactor table
\* to which a life override applied and no project was appended (the
\* assignments of lines 39 and 87-93 went into the copy of the table), and
\* the table held still has the columns it was given with.
C21_Witness ==
    /\ demand_args # NoCall
    /\ demand_ret # Pending
    /\ demand_ret.status = "ok"
    /\ Len(demand_ret.rows) > 0
    /\ LifeRowsAsked(demand_args) # {}
    /\ ProjectsAsked(demand_args) = {}
    /\ demand_args.reactor_master.columns = MasterColumns
    /\ "shutdown_year" \notin demand_args.reactor_master.columns

====
